---- MODULE Spec2Model ----
(***************************************************************************)
(* pocketty: the real-time audio engine (src/pocketty/src/audio) and the   *)
(* channels that connect it to the control thread and the microphone       *)
(* callback.                                                               *)
(*                                                                         *)
(* Sample values are integers in units of 1/100 of full scale, so the      *)
(* recording threshold 0.02 is RECORD_PEAK_THRESHOLD = 2.  Playback        *)
(* positions and pitches are fixed-point numbers with PosScale units per   *)
(* frame.  An Option<T> is a sequence of length at most one.  Rendered      *)
(* output is in units of 1/OutUnit of a sample unit, which keeps the lerp   *)
(* and the fade exact.                                                     *)
(***************************************************************************)
EXTENDS Integers, Sequences, FiniteSets, TLC

VARIABLES
    cmd_chan,         \* bounded(1024) AudioCommand channel, control -> engine
    input_chan,       \* bounded(2048) Vec<StereoFrame> channel, mic -> engine
    completed_chan,   \* bounded(16) CompletedRecording channel, engine -> control
    sample_registry,  \* AudioHandle.sample_registry
    samples,          \* Engine.samples
    active,           \* Engine.active
    recording,        \* Engine.recording
    pc,               \* position of the output callback
    chunks,           \* drain_input's local `chunks`
    n_sent,           \* history: try_send attempts on cmd_chan
    n_accepted,       \* history: commands cmd_chan accepted
    n_applied,        \* history: commands handle_cmd has applied
    n_chunks,         \* history: try_send attempts on input_chan
    n_callbacks,      \* history: output callbacks started
    heard,            \* history: frames drain_input saw since the last StartRecording
    last,             \* history: the command handle_cmd just handled, and the
                      \* recording state it met
    ignored,          \* history: ids of the Triggers that met no registered sample
    dropped,          \* history: try_send failures per channel
    n_drained,        \* history: frames SpecEngine's drain_input calls received
    out,              \* the slice render_block was last called on, as it left it
    reads,            \* history: every `data[idx]` of render_into, with its frame's locals
    bounce,           \* bounce_offline's arguments and locals, None outside a bounce
    triggered,        \* history: the TriggerParams that made a voice, engine alone
    crushed,          \* the last Effect::process call: levels, buffer in, buffer out
    NEXT_ID,          \* sample_id.rs: static NEXT_ID
    fetched,          \* per thread: the value its fetch_add returned, not yet handed back
    returned_ids,     \* history, per thread: the SampleIds next_sample_id returned
    input_device_index, \* AudioHandle.input_device_index
    input_stream,     \* AudioHandle.input_stream
    cycle,            \* cycle_input_device's position, locals and last return value
    streams,          \* the capture streams that exist (built and not dropped)
    n_built,          \* history: capture streams built so far
    passes,           \* history: the sizes of the non-empty blocks rendered so far
    output_stream,    \* the output stream start_audio built: its channel count
    callback_data,    \* the last output callback: data.len() and n_frames
    held,             \* Middle.held: the sound, pattern and record buttons
    selected_sound,   \* Middle.state.selected_sound
    sounds,           \* Middle.state.sounds: the fields of each SoundSlot
    emitted,          \* the commands handle_input returned, not yet handled
    panicked,         \* the control thread has panicked
    overflowed,       \* history: an addition of handle_input exceeded usize::MAX
    n_turns,          \* history: knob turns handled by handle_input
    resample_args,    \* resample_linear's arguments, None outside a call
    resampled         \* what resample_linear returned, with each frame's locals

id_vars == <<NEXT_ID, fetched, returned_ids>>
input_vars == <<input_device_index, input_stream, cycle, streams, n_built>>
output_vars == <<output_stream, callback_data>>
middle_vars == <<held, selected_sound, sounds, emitted, panicked, overflowed,
                 n_turns>>
resample_vars == <<resample_args, resampled>>

vars == <<cmd_chan, input_chan, completed_chan, sample_registry, samples, active,
          recording, pc, chunks, n_sent, n_accepted, n_applied, n_chunks,
          n_callbacks, heard, last, ignored, dropped, n_drained, out, reads, bounce,
          triggered, crushed, id_vars, input_vars, passes, output_vars, middle_vars,
          resample_vars>>

----------------------------------------------------------------------------
(* Bounds of the model *)

CmdChanCap == 2        \* capacity of cmd_chan (1024 in the program)
InputChanCap == 2      \* capacity of input_chan (2048 in the program)
CompletedChanCap == 1  \* capacity of completed_chan (16 in the program)
PRE_ROLL_FRAMES == 2   \* capacity of the pre-roll ring (6615 in the program)
MaxSends == 3          \* commands the control thread sends in Spec
MaxChunks == 2         \* chunks the microphone callback sends in Spec
MaxChanSends == 5      \* commands the control thread sends in SpecChan
MaxChanChunks == 4     \* chunks the microphone callback sends in SpecChan
MaxCallbacks == 2      \* output callbacks in Spec
MaxChanCallbacks == 3  \* output callbacks in SpecChan
MaxBlock == 2          \* frames per output block
MaxCmds == 3           \* commands SpecEngine handles
MaxRecCmds == 6        \* commands SpecRec handles
MaxHeard == 5          \* frames drained while recording in SpecCapture
MaxEngineHeard == 3    \* frames drained while recording in SpecEngine
MaxRecHeard == 3       \* frames drained while recording in SpecRec
MaxCaptureCmds == 2    \* commands SpecCapture handles
MaxMixCmds == 3        \* commands SpecMix handles
MaxVoiceCmds == 2      \* commands SpecVoice handles after its Trigger
MaxChainCmds == 3      \* commands SpecChain handles
MaxPasses == 5         \* render passes of SpecPlay
MaxChannels == 3       \* channels of the output device
MaxOutCmds == 2        \* commands SpecOut handles
MaxOutCallbacks == 2   \* output callbacks of SpecOut
MaxEmitted == 2        \* commands sent and not yet handled (the queue holds 1024)
MaxMiddleCmds == 3     \* RecordDown and RecordUp events that send a command
MaxMiddleHeard == 1    \* frames drained in SpecMiddle
MaxTrimLen == 3        \* frames of a file loaded in SpecTrim
MaxTrimCmds == 2       \* commands sent in SpecTrim
MaxTurns == 4          \* knob turns in SpecTrim
MaxResampleFrames == 7 \* frames of a file resampled in SpecResample
MaxSteps == 3          \* steps of a bounced pattern
MaxFramesPerStep == 2  \* frames per step of a bounced pattern
MaxLevels == 5         \* largest `levels` a Bitcrusher is made with
MaxThreads == 2        \* threads that call next_sample_id
MaxIds == 5            \* calls of next_sample_id
MaxDevices == 3        \* input devices the host lists
MaxCycles == 3         \* calls of cycle_input_device
MaxSlots == 2          \* sound slots (NUM_SOUNDS is 16 in the program)
MaxDrain == 2          \* frames per drain_input in SpecEngine
MaxRingCap == 3        \* ring capacities of SpecRing
MaxPushes == 5         \* pushes of SpecRing
FADE_SAMPLES == 2      \* frames of the fade-out (256 in the program)

(* Program constants *)

RECORD_PEAK_THRESHOLD == 2
PosScale == 2
\* usize::MAX, the length of a slot that was just recorded, scaled down
usize_MAX == 1000000
\* f32::MANTISSA_DIGITS, the significant bits of a position (24 in the program)
f32_MANTISSA_DIGITS == 5
\* a pitch of 2^9, above what the f32 of the model resolves to one frame
HugePitch == 512 * PosScale
\* SoundSlot::default().length, 44100 in the program
DEFAULT_LENGTH == 4
f64_MANTISSA_DIGITS == 10   \* significant bits of an f64 (53), scaled down
F64Scale == 4096            \* an f64 is a count of 1/F64Scale
Rates == {3, 7, 11, 15}     \* sample rates in Hz, scaled down
\* one sample unit of rendered output: lerp weight * fade weight
OutUnit == PosScale * (FADE_SAMPLES * PosScale)

----------------------------------------------------------------------------
(* Values *)

Min(a, b) == IF a < b THEN a ELSE b
Max(a, b) == IF a > b THEN a ELSE b
Abs(a) == IF a < 0 THEN -a ELSE a
Clamp(x, lo, hi) == IF x < lo THEN lo ELSE IF x > hi THEN hi ELSE x

StereoFrame(l, r) == [left |-> l, right |-> r]
StereoFrame_default == StereoFrame(0, 0)

\* the frames the microphone delivers: silence, a frame whose peak is exactly
\* the threshold, and a frame above it by its negative right channel only
QuietFrame == StereoFrame(-2, 2)
LoudFrame == StereoFrame(1, -3)
MicFrames == {StereoFrame_default, QuietFrame, LoudFrame}

SeqsUpTo(S, n) == UNION {[1..k -> S] : k \in 0..n}
LiveChunks == {<<QuietFrame>>, <<StereoFrame_default, LoudFrame>>}

SampleIds == {1, 2}
SampleBuffer_from_frames(frames) == frames
RegisteredBuffers == {<<QuietFrame, LoudFrame>>}

None == <<>>
Some(x) == <<x>>

\* TriggerParams (audio_api.rs); pitch in PosScale units
TriggerParams(id, ts, len, rev, st) ==
    [sample_id |-> id, trim_start |-> ts, length |-> len, gain |-> 1,
     pitch |-> PosScale, effect_chain |-> <<>>, reverse |-> rev,
     stutter_period_samples |-> st]
TriggerParamSet ==
    {TriggerParams(id, 0, 2, FALSE, None) : id \in SampleIds}

\* TriggerParams with every field given
TriggerParamsFull(id, ts, len, gain, pitch, chain, rev, st) ==
    [sample_id |-> id, trim_start |-> ts, length |-> len, gain |-> gain,
     pitch |-> pitch, effect_chain |-> chain, reverse |-> rev,
     stutter_period_samples |-> st]

RegisterSample(id, buffer) == [type |-> "RegisterSample", id |-> id, buffer |-> buffer]
Trigger(params) == [type |-> "Trigger", params |-> params]
StartRecording(id) == [type |-> "StartRecording", sample_id |-> id]
StopRecording == [type |-> "StopRecording"]
SetPlaybackPosition(id, position) ==
    [type |-> "SetPlaybackPosition", sample_id |-> id, position |-> position]
StopAllVoices == [type |-> "StopAllVoices"]

AudioCommand ==
    {RegisterSample(id, b) : id \in SampleIds, b \in RegisteredBuffers}
    \cup {Trigger(p) : p \in TriggerParamSet}
    \cup {StartRecording(id) : id \in SampleIds}
    \cup {StopRecording, StopAllVoices}
    \cup {SetPlaybackPosition(id, PosScale) : id \in SampleIds}
\* the commands and chunks of the live system's control thread and microphone
LiveCommands ==
    {RegisterSample(1, <<QuietFrame, LoudFrame>>),
     Trigger(TriggerParams(1, 0, 2, FALSE, None)),
     SetPlaybackPosition(1, PosScale), StopAllVoices,
     StartRecording(2), StopRecording}
\* the commands of SpecEngine
EngineCommands ==
    {RegisterSample(1, <<QuietFrame, LoudFrame>>),
     Trigger(TriggerParams(1, 0, 2, FALSE, None)),
     SetPlaybackPosition(1, PosScale), StopAllVoices,
     StartRecording(1), StartRecording(2), StopRecording}
RecFrames == {StereoFrame_default, LoudFrame}
\* the arguments of bounce_offline: what one step may hold
BounceStepCommands ==
    {<<>>,
     <<Trigger(TriggerParamsFull(1, 0, 3, 1, PosScale, <<>>, FALSE, None))>>,
     <<StopAllVoices,
       Trigger(TriggerParamsFull(2, 0, 2, 2, 1, <<[type |-> "Bitcrusher", levels |-> 3]>>,
                                 FALSE, None))>>,
     <<Trigger(TriggerParamsFull(1, 1, 2, 1, PosScale, <<>>, TRUE, None)), StopAllVoices>>}

\* the buffers, Triggers and later commands of SpecVoice
VoiceFrame1 == StereoFrame(60, -100)
VoiceFrame2 == StereoFrame(30, 40)
VoiceFrame3 == StereoFrame(-20, 10)
VoiceBuffers ==
    {<<>>, <<VoiceFrame1>>, <<VoiceFrame1, VoiceFrame2, VoiceFrame3>>,
     <<StereoFrame_default, StereoFrame_default>>,
     <<StereoFrame_default, StereoFrame_default, StereoFrame_default>>}
VoiceParams ==
    {TriggerParamsFull(1, ts, len, 1, pitch, <<>>, rev, st) :
        ts \in {0, 1, 3}, len \in {0, 2, 3, usize_MAX}, pitch \in {1, PosScale, 2 * PosScale},
        rev \in BOOLEAN, st \in {None, Some(0), Some(2)}}
VoiceCommands ==
    {SetPlaybackPosition(1, -PosScale), SetPlaybackPosition(1, 10 * PosScale)}
    \cup {RegisterSample(1, b) :
            b \in {<<>>, <<VoiceFrame2, VoiceFrame1>>,
                   <<VoiceFrame1, VoiceFrame2, VoiceFrame3>>}}

\* the samples and commands of SpecMix: a plain voice of sample 1, a half-speed,
\* louder, bit-crushed voice of sample 2, a voice of length 0, position changes
\* below, inside and above a voice's window, and StopAllVoices
MixBuffer1 == <<StereoFrame(60, -100), StereoFrame(30, 40), StereoFrame(-20, 10)>>
MixBuffer2 == <<StereoFrame(100, 50), StereoFrame(-60, 20)>>
MixCommands ==
    {Trigger(TriggerParamsFull(1, 0, 3, 1, PosScale, <<>>, FALSE, None)),
     Trigger(TriggerParamsFull(2, 0, 2, 2, 1, <<[type |-> "Bitcrusher", levels |-> 3]>>,
                               FALSE, None)),
     Trigger(TriggerParamsFull(1, 0, 0, 1, PosScale, <<>>, FALSE, None)),
     SetPlaybackPosition(1, -PosScale), SetPlaybackPosition(1, PosScale + 1),
     SetPlaybackPosition(1, 10 * PosScale),
     StopAllVoices}
CaptureCommands == {StartRecording(1), StopRecording}
RecCommands == {StartRecording(1), StartRecording(2), StopRecording}
ChanCommands == {StartRecording(2), StopRecording}
ChanChunks == {<<StereoFrame_default, LoudFrame>>}

\* HashMap::insert
Insert(map, k, v) == [x \in DOMAIN map \cup {k} |-> IF x = k THEN v ELSE map[x]]
EmptyMap == [x \in {} |-> 0]

\* a channel that makes room by dropping its oldest item
try_send_drop_oldest(chan, cap, item) ==
    IF Len(chan) < cap THEN Append(chan, item) ELSE Append(Tail(chan), item)

\* crossbeam bounded channel: try_send fails on a full channel and the caller
\* ignores the error
try_send(chan, cap, item) == IF Len(chan) < cap THEN Append(chan, item) ELSE chan

----------------------------------------------------------------------------
(* PreRollRing (engine.rs) *)

PreRollRing_new(capacity) ==
    [data |-> [i \in 1..capacity |-> StereoFrame_default], write_pos |-> 0, len |-> 0]

\* data is indexed from 0 in the program and from 1 here
push(ring, frame) ==
    LET cap == Len(ring.data) IN
    IF cap = 0 THEN ring
    ELSE [data |-> [ring.data EXCEPT ![ring.write_pos + 1] = frame],
          write_pos |-> (ring.write_pos + 1) % cap,
          len |-> IF ring.len < cap THEN ring.len + 1 ELSE ring.len]

\* a drain that reads the ring from slot 0 whatever the write position
drain_ordered_from_zero(ring) ==
    LET cap == Len(ring.data) IN
    IF ring.len = 0 \/ cap = 0 THEN <<>>
    ELSE [i \in 1..ring.len |-> ring.data[((i - 1) % cap) + 1]]

drain_ordered(ring) ==
    LET cap == Len(ring.data) IN
    IF ring.len = 0 \/ cap = 0 THEN <<>>
    ELSE LET start == IF ring.len < cap THEN 0 ELSE ring.write_pos
         IN [i \in 1..ring.len |-> ring.data[((start + (i - 1)) % cap) + 1]]

----------------------------------------------------------------------------
(* Voice (voice.rs) *)

\* 2^k
RECURSIVE Pow2(_)
Pow2(k) == IF k = 0 THEN 1 ELSE 2 * Pow2(k - 1)

\* the distance between neighbouring floats of m significant bits at x >= 0
RECURSIVE Ulp(_, _)
Ulp(x, m) == IF x < Pow2(m) THEN 1 ELSE 2 * Ulp(x \div 2, m)

\* x rounded to the nearest multiple of u, ties to the even multiple
RoundToEven(x, u) ==
    LET q == x \div u
        r == x % u
    IN IF 2 * r > u \/ (2 * r = u /\ q % 2 = 1) THEN (q + 1) * u ELSE q * u

\* the f32 nearest to a position or pitch x, in units of 1 / PosScale
f32(x) ==
    IF x >= 0 THEN RoundToEven(x, Ulp(x, f32_MANTISSA_DIGITS))
    ELSE -RoundToEven(-x, Ulp(-x, f32_MANTISSA_DIGITS))

\* `while self.pos >= p { self.pos -= p; }` never ends: a subtraction leaves
\* pos as it was
RECURSIVE wrap_down_diverges(_, _)
wrap_down_diverges(pos, p) ==
    IF pos < p THEN FALSE
    ELSE IF f32(pos - p) = pos THEN TRUE
    ELSE wrap_down_diverges(f32(pos - p), p)

\* `while self.pos < 0.0 { self.pos += p; }` never ends
RECURSIVE wrap_up_diverges(_, _)
wrap_up_diverges(pos, p) ==
    IF pos >= 0 THEN FALSE
    ELSE IF f32(pos + p) = pos THEN TRUE
    ELSE wrap_up_diverges(f32(pos + p), p)

\* the stutter wrap of a frame does not end, for the voice v as the frame left
\* it and the position `moved` it advanced to
wrap_diverges(v, moved) ==
    /\ v.stutter_period # None
    /\ LET p == Min(v.stutter_period[1], v.length) * PosScale
       IN p > 0 /\ IF v.reverse THEN wrap_up_diverges(moved, p)
                   ELSE wrap_down_diverges(moved, p)

\* a voice that counts its first frame before it renders it
Voice_new_started(trim_start, length, pitch, gain, reverse, stutter_period) ==
    [pos |-> IF reverse /\ length > 0 THEN (length - 1) * PosScale ELSE 0,
     pitch |-> pitch, gain |-> gain, active |-> TRUE, reverse |-> reverse,
     trim_start |-> trim_start, length |-> length,
     stutter_period |-> stutter_period, frames_rendered |-> 1]

Voice_new(trim_start, length, pitch, gain, reverse, stutter_period) ==
    [pos |-> IF reverse /\ length > 0 THEN (length - 1) * PosScale ELSE 0,
     pitch |-> pitch, gain |-> gain, active |-> TRUE, reverse |-> reverse,
     trim_start |-> trim_start, length |-> length,
     stutter_period |-> stutter_period, frames_rendered |-> 0]

set_pos(v, pos) ==
    IF v.length > 0
    THEN [v EXCEPT !.pos = Clamp(pos, 0, (v.length - 1) * PosScale)]
    ELSE v

\* lerp(a, b, t) with t = frac / PosScale, in units of 1/PosScale
lerp(a, b, frac) == a * (PosScale - frac) + b * frac

\* min(pos_fade, life_fade), in units of 1/(FADE_SAMPLES * PosScale)
fade(v) ==
    LET pos_dist == IF v.reverse THEN v.pos ELSE Max(v.length * PosScale - v.pos, 0)
        pos_fade == Min(pos_dist, FADE_SAMPLES * PosScale)
        life_dist == Max(v.length - v.frames_rendered, 0) * PosScale
        life_fade == Min(life_dist, FADE_SAMPLES * PosScale)
    IN Min(pos_fade, life_fade)

\* the stutter wrap of one frame: `while pos < 0 { pos += p }` and
\* `while pos >= p { pos -= p }`
stutter_wrap(v, pos) ==
    IF v.stutter_period = None THEN pos
    ELSE LET p == Min(v.stutter_period[1], v.length) * PosScale IN
         IF p <= 0 THEN pos
         ELSE IF v.reverse THEN (IF pos < 0 THEN pos % p ELSE pos)
         ELSE (IF pos >= p THEN pos % p ELSE pos)

\* what render_into returns to its caller: the voice, the slice and the reads
Rendered(v, out_, reads_) == [voice |-> v, out |-> out_, reads |-> reads_]

\* a per-frame loop that applies the window-boundary check to stutter voices too
RECURSIVE render_frames_window_check(_, _, _, _, _)
render_frames_window_check(v, data, out_, k, reads_) ==
    IF k > Len(out_) \/ ~v.active THEN Rendered(v, out_, reads_)
    ELSE IF v.frames_rendered >= v.length
         THEN Rendered([v EXCEPT !.active = FALSE], out_, reads_)
    ELSE IF v.reverse /\ v.pos < 0
         THEN Rendered([v EXCEPT !.active = FALSE], out_, reads_)
    ELSE IF ~v.reverse /\ v.pos >= v.length * PosScale
         THEN Rendered([v EXCEPT !.active = FALSE], out_, reads_)
    ELSE LET read_pos == Clamp(v.pos, 0, (v.length - 1) * PosScale)
             i == read_pos \div PosScale
             frac == read_pos % PosScale
             idx == v.trim_start + i
             read == [idx |-> idx, len |-> Len(data), pos |-> v.pos, at |-> read_pos,
                      length |-> v.length, fade |-> fade(v)]
         IN IF i >= v.length THEN Rendered([v EXCEPT !.active = FALSE], out_, reads_)
            ELSE IF idx >= Len(data) THEN Rendered(v, out_, Append(reads_, read))
            ELSE LET s0 == data[idx + 1]
                     s1 == IF idx + 1 < Len(data) THEN data[idx + 2] ELSE s0
                     g == v.gain * fade(v)
                     frame == StereoFrame(out_[k].left + lerp(s0.left, s1.left, frac) * g,
                                          out_[k].right + lerp(s0.right, s1.right, frac) * g)
                     moved == IF v.reverse THEN v.pos - v.pitch ELSE v.pos + v.pitch
                 IN render_frames_window_check([v EXCEPT !.pos = stutter_wrap(v, moved),
                                            !.frames_rendered = @ + 1],
                                  data, [out_ EXCEPT ![k] = frame], k + 1,
                                  Append(reads_, read))

\* the per-frame loop of render_into from frame k of the slice on.  Each read is
\* recorded with the position, the clamped position, the length and the fade of
\* its frame.  A read at
\* an index that is not below data.len() panics: it is recorded and the loop
\* is left.
RECURSIVE render_frames(_, _, _, _, _)
render_frames(v, data, out_, k, reads_) ==
    IF k > Len(out_) \/ ~v.active THEN Rendered(v, out_, reads_)
    ELSE IF v.frames_rendered >= v.length
         THEN Rendered([v EXCEPT !.active = FALSE], out_, reads_)
    ELSE IF v.stutter_period = None /\ v.reverse /\ v.pos < 0
         THEN Rendered([v EXCEPT !.active = FALSE], out_, reads_)
    ELSE IF v.stutter_period = None /\ ~v.reverse /\ v.pos >= v.length * PosScale
         THEN Rendered([v EXCEPT !.active = FALSE], out_, reads_)
    ELSE LET read_pos == Clamp(v.pos, 0, (v.length - 1) * PosScale)
             i == read_pos \div PosScale
             frac == read_pos % PosScale
             idx == v.trim_start + i
             read == [idx |-> idx, len |-> Len(data), pos |-> v.pos, at |-> read_pos,
                      length |-> v.length, fade |-> fade(v)]
         IN IF i >= v.length THEN Rendered([v EXCEPT !.active = FALSE], out_, reads_)
            ELSE IF idx >= Len(data) THEN Rendered(v, out_, Append(reads_, read))
            ELSE LET s0 == data[idx + 1]
                     s1 == IF idx + 1 < Len(data) THEN data[idx + 2] ELSE s0
                     g == v.gain * fade(v)
                     frame == StereoFrame(out_[k].left + lerp(s0.left, s1.left, frac) * g,
                                          out_[k].right + lerp(s0.right, s1.right, frac) * g)
                     moved == IF v.reverse THEN v.pos - v.pitch ELSE v.pos + v.pitch
                 IN render_frames([v EXCEPT !.pos = stutter_wrap(v, moved),
                                            !.frames_rendered = @ + 1],
                                  data, [out_ EXCEPT ![k] = frame], k + 1,
                                  Append(reads_, read))

\* a render_into that takes a trim_start equal to the buffer length for a start
\* inside the buffer
render_into_off_by_one(v, buffer, out_) ==
    IF ~v.active THEN Rendered(v, out_, <<>>)
    ELSE LET available == Max(Len(buffer) + 1 - v.trim_start, 0) IN
         IF available = 0 THEN Rendered([v EXCEPT !.active = FALSE], out_, <<>>)
         ELSE LET w == [v EXCEPT !.length = Min(@, available)] IN
              IF w.length = 0 THEN Rendered([w EXCEPT !.active = FALSE], out_, <<>>)
              ELSE render_frames(w, buffer, out_, 1, <<>>)

\* a render_into that keeps the length the voice had
render_into_unclamped(v, buffer, out_) ==
    IF ~v.active THEN Rendered(v, out_, <<>>)
    ELSE LET available == Max(Len(buffer) - v.trim_start, 0) IN
         IF available = 0 THEN Rendered([v EXCEPT !.active = FALSE], out_, <<>>)
         ELSE IF v.length = 0 THEN Rendered([v EXCEPT !.active = FALSE], out_, <<>>)
         ELSE render_frames(v, buffer, out_, 1, <<>>)

\* a render_into whose frame count starts over with each call
render_into_count_per_call(v, buffer, out_) ==
    IF ~v.active THEN Rendered(v, out_, <<>>)
    ELSE LET available == Max(Len(buffer) - v.trim_start, 0) IN
         IF available = 0 THEN Rendered([v EXCEPT !.active = FALSE], out_, <<>>)
         ELSE LET w == [v EXCEPT !.length = Min(@, available), !.frames_rendered = 0] IN
              IF w.length = 0 THEN Rendered([w EXCEPT !.active = FALSE], out_, <<>>)
              ELSE render_frames(w, buffer, out_, 1, <<>>)

render_into(v, buffer, out_) ==
    IF ~v.active THEN Rendered(v, out_, <<>>)
    ELSE LET available == Max(Len(buffer) - v.trim_start, 0) IN
         IF available = 0 THEN Rendered([v EXCEPT !.active = FALSE], out_, <<>>)
         ELSE LET w == [v EXCEPT !.length = Min(@, available)] IN
              IF w.length = 0 THEN Rendered([w EXCEPT !.active = FALSE], out_, <<>>)
              ELSE render_frames(w, buffer, out_, 1, <<>>)

----------------------------------------------------------------------------
(* Effects (effect.rs).  Bitcrusher is modelled; Distortion is a tanh and   *)
(* stays out of the model.                                                  *)

\* EffectSpec::Bitcrusher { levels }
EffectSpec_Bitcrusher(levels) == [type |-> "Bitcrusher", levels |-> levels]

Bitcrusher_new(levels) == [levels |-> Min(Max(levels, 2), 65536)]

to_effect(spec) == Bitcrusher_new(spec.levels)

\* f32::round of num / den for den > 0: half away from zero
Round(num, den) ==
    IF num >= 0 THEN (2 * num + den) \div (2 * den)
    ELSE -((2 * (-num) + den) \div (2 * den))

\* (x.clamp(-1.0, 1.0) * scale).round() * inv with scale = (levels - 1) / 2, on
\* a value in output units, where 1.0 is 100 * OutUnit
Bitcrusher_sample(effect, x) ==
    LET one == 100 * OutUnit
        c == Clamp(x, -one, one)
    IN (Round(c * (effect.levels - 1), 2 * one) * (2 * one)) \div (effect.levels - 1)

\* Effect::process
process(effect, buf) ==
    [i \in 1..Len(buf) |-> StereoFrame(Bitcrusher_sample(effect, buf[i].left),
                                       Bitcrusher_sample(effect, buf[i].right))]

\* an effect loop that runs the chain from its last processor to its first
RECURSIVE process_chain_backwards(_, _)
process_chain_backwards(chain, buf) ==
    IF chain = <<>> THEN buf
    ELSE process(Head(chain), process_chain_backwards(Tail(chain), buf))

\* `for effect in &mut active.effect_chain { effect.process(temp) }`
RECURSIVE process_chain(_, _)
process_chain(chain, buf) ==
    IF chain = <<>> THEN buf
    ELSE process_chain(Tail(chain), process(Head(chain), buf))

----------------------------------------------------------------------------
(* Engine (engine.rs).  An engine value holds the fields handle_cmd touches: *)
(* samples, active, recording and the sending end of completed_chan.         *)

Idle == [tag |-> "Idle"]
Armed(id, ring) == [tag |-> "Armed", sample_id |-> id, pre_roll |-> ring]
Capturing(id, buffer) == [tag |-> "Capturing", sample_id |-> id, buffer |-> buffer]

CompletedRecording(id, buffer) == [sample_id |-> id, buffer |-> buffer]

ActiveVoice(voice, id, chain) ==
    [voice |-> voice, sample_id |-> id, effect_chain |-> chain]

handle_RegisterSample(eng, id, buffer) ==
    [eng EXCEPT !.samples = Insert(@, id, buffer)]

\* a Trigger that does not look the sample up
handle_Trigger_unchecked(eng, params) ==
    [eng EXCEPT !.active = Append(@,
        ActiveVoice(Voice_new(params.trim_start, params.length, params.pitch,
                              params.gain, params.reverse,
                              params.stutter_period_samples),
                    params.sample_id,
                    [i \in 1..Len(params.effect_chain) |-> to_effect(params.effect_chain[i])]))]

handle_Trigger(eng, params) ==
    IF params.sample_id \notin DOMAIN eng.samples THEN eng
    ELSE [eng EXCEPT !.active = Append(@,
            ActiveVoice(Voice_new(params.trim_start, params.length, params.pitch,
                                  params.gain, params.reverse,
                                  params.stutter_period_samples),
                        params.sample_id,
                    [i \in 1..Len(params.effect_chain) |-> to_effect(params.effect_chain[i])]))]

\* the index of the last voice of `sample_id` that is active, or 0
rev_find(act, sample_id) ==
    LET hits == {i \in 1..Len(act) : act[i].sample_id = sample_id /\ act[i].voice.active}
    IN IF hits = {} THEN 0 ELSE CHOOSE i \in hits : \A j \in hits : j <= i

\* a SetPlaybackPosition that takes the earliest matching voice
handle_SetPlaybackPosition_first(eng, sample_id, position) ==
    LET hits == {i \in 1..Len(eng.active) :
                    eng.active[i].sample_id = sample_id /\ eng.active[i].voice.active}
    IN IF hits = {} THEN eng
       ELSE LET i == CHOOSE i \in hits : \A j \in hits : i <= j
            IN [eng EXCEPT !.active[i].voice = set_pos(@, position)]

handle_SetPlaybackPosition(eng, sample_id, position) ==
    LET i == rev_find(eng.active, sample_id) IN
    IF i = 0 THEN eng
    ELSE [eng EXCEPT !.active[i].voice = set_pos(@, position)]

\* a StopAllVoices that stops the oldest voice only
handle_StopAllVoices_oldest(eng) ==
    [eng EXCEPT !.active = [i \in 1..Len(@) |->
                               IF i = 1 THEN [@[i] EXCEPT !.voice.active = FALSE] ELSE @[i]]]

\* a StopAllVoices that stops the recording as well
handle_StopAllVoices_and_recording(eng) ==
    [eng EXCEPT !.active = [i \in 1..Len(@) |-> [@[i] EXCEPT !.voice.active = FALSE]],
                !.recording = Idle]

handle_StopAllVoices(eng) ==
    [eng EXCEPT !.active = [i \in 1..Len(@) |-> [@[i] EXCEPT !.voice.active = FALSE]]]

\* a StartRecording whose ring starts with one silent frame in it
handle_StartRecording_seeded(eng, sample_id) ==
    [eng EXCEPT !.recording =
        Armed(sample_id, push(PreRollRing_new(PRE_ROLL_FRAMES), StereoFrame_default))]

\* a StartRecording that first finishes the recording it interrupts
handle_StartRecording_finish_previous(eng, sample_id) ==
    [eng EXCEPT !.recording = Armed(sample_id, PreRollRing_new(PRE_ROLL_FRAMES)),
                !.samples = IF eng.recording.tag = "Capturing"
                            THEN Insert(@, eng.recording.sample_id, eng.recording.buffer)
                            ELSE IF eng.recording.tag = "Armed"
                            THEN Insert(@, eng.recording.sample_id, <<StereoFrame_default>>)
                            ELSE @]

\* a StartRecording that takes the target id out of the registry while it records
handle_StartRecording_unregister(eng, sample_id) ==
    [eng EXCEPT !.recording = Armed(sample_id, PreRollRing_new(PRE_ROLL_FRAMES)),
                !.samples = [id \in DOMAIN @ \ {sample_id} |-> @[id]]]

handle_StartRecording(eng, sample_id) ==
    [eng EXCEPT !.recording = Armed(sample_id, PreRollRing_new(PRE_ROLL_FRAMES))]

\* a StopRecording that publishes the silent frame of an Armed recording too
handle_StopRecording_publish_armed(eng) ==
    IF eng.recording.tag = "Idle" THEN eng
    ELSE LET sample_id == eng.recording.sample_id
             buf == IF eng.recording.tag = "Armed" \/ eng.recording.buffer = <<>>
                    THEN <<StereoFrame_default>> ELSE eng.recording.buffer
         IN [eng EXCEPT !.recording = Idle,
                        !.completed = try_send(@, CompletedChanCap,
                                               CompletedRecording(sample_id, buf)),
                        !.samples = Insert(@, sample_id, buf)]

\* a StopRecording that sends the capture before the empty-buffer fallback and
\* the pre-roll is taken into account: the copy sent lacks the first frame
handle_StopRecording_stale_copy(eng) ==
    IF eng.recording.tag = "Capturing" THEN
        [eng EXCEPT !.recording = Idle,
                    !.completed = try_send(@, CompletedChanCap,
                        CompletedRecording(eng.recording.sample_id,
                                           Tail(eng.recording.buffer))),
                    !.samples = Insert(@, eng.recording.sample_id, eng.recording.buffer)]
    ELSE IF eng.recording.tag = "Armed" THEN
        [eng EXCEPT !.recording = Idle,
                    !.samples = Insert(@, eng.recording.sample_id, <<StereoFrame_default>>)]
    ELSE eng

\* a StopRecording that registers what the pre-roll ring holds
handle_StopRecording_keep_pre_roll(eng) ==
    IF eng.recording.tag = "Capturing" THEN
        [eng EXCEPT !.recording = Idle,
                    !.completed = try_send(@, CompletedChanCap,
                        CompletedRecording(eng.recording.sample_id, eng.recording.buffer)),
                    !.samples = Insert(@, eng.recording.sample_id, eng.recording.buffer)]
    ELSE IF eng.recording.tag = "Armed" THEN
        [eng EXCEPT !.recording = Idle,
                    !.samples = Insert(@, eng.recording.sample_id,
                        IF eng.recording.pre_roll.len = 0 THEN <<StereoFrame_default>>
                        ELSE drain_ordered(eng.recording.pre_roll))]
    ELSE eng

\* a StopRecording that also stops the voices
handle_StopRecording_stop_voices(eng) ==
    LET e == handle_StopAllVoices(eng) IN
    IF e.recording.tag = "Capturing" THEN
        [e EXCEPT !.recording = Idle,
                  !.completed = try_send(@, CompletedChanCap,
                      CompletedRecording(e.recording.sample_id, e.recording.buffer)),
                  !.samples = Insert(@, e.recording.sample_id, e.recording.buffer)]
    ELSE IF e.recording.tag = "Armed" THEN
        [e EXCEPT !.recording = Idle,
                  !.samples = Insert(@, e.recording.sample_id, <<StereoFrame_default>>)]
    ELSE e

handle_StopRecording(eng) ==
    IF eng.recording.tag = "Capturing" THEN
        LET sample_id == eng.recording.sample_id
            buffer == eng.recording.buffer
            buf == IF buffer = <<>>
                   THEN SampleBuffer_from_frames(<<StereoFrame_default>>)
                   ELSE SampleBuffer_from_frames(buffer)
        IN [eng EXCEPT !.recording = Idle,
                       !.completed = try_send(@, CompletedChanCap,
                                              CompletedRecording(sample_id, buf)),
                       !.samples = Insert(@, sample_id, buf)]
    ELSE IF eng.recording.tag = "Armed" THEN
        [eng EXCEPT !.recording = Idle,
                    !.samples = Insert(@, eng.recording.sample_id,
                                       SampleBuffer_from_frames(<<StereoFrame_default>>))]
    ELSE [eng EXCEPT !.recording = Idle]

handle_cmd(eng, cmd) ==
    CASE cmd.type = "RegisterSample" -> handle_RegisterSample(eng, cmd.id, cmd.buffer)
      [] cmd.type = "Trigger" -> handle_Trigger(eng, cmd.params)
      [] cmd.type = "SetPlaybackPosition" ->
            handle_SetPlaybackPosition(eng, cmd.sample_id, cmd.position)
      [] cmd.type = "StopAllVoices" -> handle_StopAllVoices(eng)
      [] cmd.type = "StartRecording" -> handle_StartRecording(eng, cmd.sample_id)
      [] cmd.type = "StopRecording" -> handle_StopRecording(eng)

(* drain_input *)

RECURSIVE Flatten(_)
Flatten(cs) == IF cs = <<>> THEN <<>> ELSE Head(cs) \o Flatten(Tail(cs))

RECURSIVE push_all(_, _)
push_all(ring, frames) ==
    IF frames = <<>> THEN ring ELSE push_all(push(ring, Head(frames)), Tail(frames))

\* `level >= RECORD_PEAK_THRESHOLD`
over_threshold_inclusive(frame) ==
    Max(Abs(frame.left), Abs(frame.right)) >= RECORD_PEAK_THRESHOLD

\* `level > RECORD_PEAK_THRESHOLD`
over_threshold(frame) ==
    Max(Abs(frame.left), Abs(frame.right)) > RECORD_PEAK_THRESHOLD

\* trigger_offset + 1 when some frame of the batch triggers, else 0
trigger_index(flat) ==
    LET hits == {i \in 1..Len(flat) : over_threshold(flat[i])}
    IN IF hits = {} THEN 0 ELSE CHOOSE i \in hits : \A j \in hits : i <= j

\* a drain_input that copies the whole batch behind the pre-roll
drain_input_whole_batch(rec, cs) ==
    IF cs = <<>> THEN rec
    ELSE IF rec.tag = "Armed" THEN
        LET flat == Flatten(cs)
            k == trigger_index(flat)
            pre_roll == push_all(rec.pre_roll,
                                 IF k = 0 THEN flat ELSE SubSeq(flat, 1, k - 1))
        IN IF k = 0 THEN Armed(rec.sample_id, pre_roll)
           ELSE Capturing(rec.sample_id, drain_ordered(pre_roll) \o flat)
    ELSE IF rec.tag = "Capturing" THEN
        Capturing(rec.sample_id, rec.buffer \o Flatten(cs))
    ELSE rec

\* the recording state drain_input leaves, given the chunks it received
drain_input(rec, cs) ==
    IF cs = <<>> THEN rec
    ELSE IF rec.tag = "Armed" THEN
        LET flat == Flatten(cs)
            k == trigger_index(flat)
            pre_roll == push_all(rec.pre_roll,
                                 IF k = 0 THEN flat ELSE SubSeq(flat, 1, k - 1))
        IN IF k = 0 THEN Armed(rec.sample_id, pre_roll)
           ELSE Capturing(rec.sample_id,
                          drain_ordered(pre_roll) \o SubSeq(flat, k, Len(flat)))
    ELSE IF rec.tag = "Capturing" THEN
        Capturing(rec.sample_id, rec.buffer \o Flatten(cs))
    ELSE rec

(* render_block *)

\* a retain that keeps the active voices in the opposite order
RECURSIVE retain_active_reversed(_)
retain_active_reversed(act) ==
    IF act = <<>> THEN <<>>
    ELSE IF Head(act).voice.active
         THEN retain_active_reversed(Tail(act)) \o <<Head(act)>>
    ELSE retain_active_reversed(Tail(act))

RECURSIVE retain_active(_)
retain_active(act) ==
    IF act = <<>> THEN <<>>
    ELSE IF Head(act).voice.active THEN <<Head(act)>> \o retain_active(Tail(act))
    ELSE retain_active(Tail(act))

Zeros(n) == [i \in 1..n |-> StereoFrame_default]

\* `out[i].left += f.left; out[i].right += f.right`
Accumulate(out_, temp) ==
    [i \in 1..Len(out_) |-> StereoFrame(out_[i].left + temp[i].left,
                                        out_[i].right + temp[i].right)]

\* the body of `for active in &mut self.active` for one voice: the voice as it
\* is left, the scratch buffer after the effect chain, and the reads
render_voice(a, smp, n_frames) ==
    IF ~a.voice.active \/ a.sample_id \notin DOMAIN smp
    THEN [active |-> a, temp |-> Zeros(n_frames), reads |-> <<>>]
    ELSE LET r == render_into(a.voice, smp[a.sample_id], Zeros(n_frames))
         IN [active |-> [a EXCEPT !.voice = r.voice],
             temp |-> process_chain(a.effect_chain, r.out),
             reads |-> r.reads]

\* the loop over the voices from voice k on; a panic in a voice ends it
RECURSIVE render_voices(_, _, _, _, _)
render_voices(act, smp, out_, reads_, k) ==
    IF k > Len(act) THEN [active |-> act, out |-> out_, reads |-> reads_]
    ELSE LET r == render_voice(act[k], smp, Len(out_))
         IN render_voices([act EXCEPT ![k] = r.active], smp,
                          Accumulate(out_, r.temp), reads_ \o r.reads, k + 1)

\* a render_block that adds to what the slice holds
render_block_no_clear(act, smp, out_) ==
    IF Len(out_) = 0 THEN [active |-> act, out |-> out_, reads |-> <<>>]
    ELSE LET r == render_voices(act, smp, out_, <<>>, 1)
         IN [r EXCEPT !.active = retain_active(@)]

\* render_block on the slice out_, whatever it holds
render_block(act, smp, out_) ==
    IF Len(out_) = 0 THEN [active |-> act, out |-> out_, reads |-> <<>>]
    ELSE LET r == render_voices(act, smp, Zeros(Len(out_)), <<>>, 1)
         IN [r EXCEPT !.active = retain_active(@)]

\* render_into over n frames does not return: some frame k + 1 is rendered and
\* the stutter wrap that follows it never ends
render_into_diverges(v, buffer, n) ==
    \E k \in 0..(n - 1) :
        LET before == render_into(v, buffer, Zeros(k)).voice
            one == render_into(before, buffer, Zeros(1))
        IN /\ Len(one.reads) = 1 /\ one.reads[1].idx < one.reads[1].len
           /\ wrap_diverges(one.voice,
                            f32(IF before.reverse THEN before.pos - before.pitch
                                ELSE before.pos + before.pitch))

\* render_block over n_frames does not return
render_block_diverges(act, smp, n_frames) ==
    /\ n_frames > 0
    /\ \E i \in 1..Len(act) :
          /\ act[i].voice.active /\ act[i].sample_id \in DOMAIN smp
          /\ render_into_diverges(act[i].voice, smp[act[i].sample_id], n_frames)

\* the slices render_block is called on: any length up to MaxBlock, holding
\* silence or what an earlier use left
StaleFrame == StereoFrame(7 * OutUnit, -7 * OutUnit)
OutSlices == {[i \in 1..n |-> f] : n \in 0..MaxBlock, f \in {StereoFrame_default, StaleFrame}}

----------------------------------------------------------------------------
(* The live system (audio/mod.rs): the control thread, the microphone callback *)
(* and the output callback, connected by the three channels.                   *)

\* history: handle_cmd's try_send on completed_chan fails
completed_dropped(cmd) ==
    IF cmd.type = "StopRecording" /\ recording.tag = "Capturing"
       /\ Len(completed_chan) >= CompletedChanCap
    THEN [dropped EXCEPT !.completed = @ + 1] ELSE dropped

\* the engine and the channels as start_audio leaves them
InitAudio ==
    /\ cmd_chan = <<>> /\ input_chan = <<>> /\ completed_chan = <<>>
    /\ sample_registry = EmptyMap
    /\ samples = EmptyMap /\ active = <<>> /\ recording = Idle
    /\ pc = "idle" /\ chunks = <<>>
    /\ n_sent = 0 /\ n_accepted = 0 /\ n_applied = 0 /\ n_chunks = 0
    /\ n_callbacks = 0 /\ heard = <<>> /\ last = None /\ ignored = {}
    /\ dropped = [cmd |-> 0, input |-> 0, completed |-> 0] /\ n_drained = 0
    /\ out = <<>> /\ reads = <<>> /\ bounce = None /\ triggered = <<>>

\* next_sample_id's threads
Threads == 1..MaxThreads

\* SampleId(pub u64)
SampleId(n) == n

\* cycle_input_device between two calls
NotCycling == [pc |-> "idle", n_calls |-> 0, devices |-> 0, name |-> None,
               built |-> None, returned |-> None]

\* the parts of the program the engine does not touch, at rest: no effect has run,
\* no id has been taken, no input device is open
\* the sound slots of the model (NUM_SOUNDS is 16 in the program)
Slots == 0..(MaxSlots - 1)

\* SoundSlot::default, the fields the model keeps
SoundSlot_default ==
    [sample_id |-> None, sample_path |-> "", buffer_len |-> 0, trim_start |-> 0,
     length |-> DEFAULT_LENGTH]

\* Middle::new: no button held, slot 0 selected, every slot empty; nothing
\* returned by handle_input is waiting
MiddleAtRest ==
    /\ held = [sound |-> FALSE, pattern |-> FALSE, record |-> FALSE]
    /\ selected_sound = 0
    /\ sounds = [slot \in Slots |-> SoundSlot_default]
    /\ emitted = <<>> /\ panicked = FALSE /\ overflowed = FALSE /\ n_turns = 0

\* no output stream built, no resample_linear call made, no block rendered
OutputAtRest == output_stream = None /\ callback_data = None
ResampleAtRest == resample_args = None /\ resampled = None

Elsewhere ==
    /\ crushed = None
    /\ NEXT_ID = 0 /\ fetched = [t \in Threads |-> None]
    /\ returned_ids = [t \in Threads |-> <<>>]
    /\ input_device_index = 0 /\ input_stream = None /\ cycle = NotCycling
    /\ streams = {} /\ n_built = 0
    /\ passes = <<>> /\ OutputAtRest /\ MiddleAtRest /\ ResampleAtRest

Init == InitAudio /\ Elsewhere

\* AudioHandle::send, on the control thread
Send(cmd) ==
    /\ n_sent' = n_sent + 1
    /\ sample_registry' = IF cmd.type = "RegisterSample"
                          THEN Insert(sample_registry, cmd.id, cmd.buffer)
                          ELSE sample_registry
    /\ cmd_chan' = try_send(cmd_chan, CmdChanCap,
                            [cmd |-> cmd, seq |-> n_accepted + 1,
                             cb |-> n_callbacks, at |-> pc])
    /\ n_accepted' = IF Len(cmd_chan) < CmdChanCap THEN n_accepted + 1 ELSE n_accepted
    /\ dropped' = IF Len(cmd_chan) < CmdChanCap THEN dropped
                  ELSE [dropped EXCEPT !.cmd = @ + 1]
    /\ UNCHANGED <<input_chan, completed_chan, samples, active, recording, pc,
                   chunks, n_applied, n_chunks, n_callbacks, heard, last, ignored, n_drained,
                   out, reads, bounce, triggered,
                   crushed, id_vars, input_vars,
                   passes, output_vars, middle_vars, resample_vars>>

\* AudioHandle::poll_completed_recording, on the control thread
\* (try_recv on an empty channel returns an error, which `.ok()` turns into None)
Poll ==
    /\ completed_chan' = IF completed_chan = <<>> THEN <<>> ELSE Tail(completed_chan)
    /\ UNCHANGED <<cmd_chan, input_chan, sample_registry, samples, active, recording,
                   pc, chunks, n_sent, n_accepted, n_applied, n_chunks, n_callbacks,
                   heard, last, ignored, dropped, n_drained,
                   out, reads, bounce, triggered,
                   crushed, id_vars, input_vars,
                   passes, output_vars, middle_vars, resample_vars>>

\* the input stream's data callback, on the microphone thread
InputCallback(output) ==
    /\ n_chunks' = n_chunks + 1
    /\ input_chan' = try_send(input_chan, InputChanCap, output)
    /\ dropped' = IF Len(input_chan) < InputChanCap THEN dropped
                  ELSE [dropped EXCEPT !.input = @ + 1]
    /\ UNCHANGED <<cmd_chan, completed_chan, sample_registry, samples, active,
                   recording, pc, chunks, n_sent, n_accepted, n_applied,
                   n_callbacks, heard, last, ignored, n_drained,
                   out, reads, bounce, triggered,
                   crushed, id_vars, input_vars,
                   passes, output_vars, middle_vars, resample_vars>>

\* the output stream's data callback is entered
CallbackStart ==
    /\ pc = "idle"
    /\ n_callbacks' = n_callbacks + 1
    /\ pc' = "cmds"
    /\ UNCHANGED <<cmd_chan, input_chan, completed_chan, sample_registry, samples,
                   active, recording, chunks, n_sent, n_accepted, n_applied,
                   n_chunks, heard, last, ignored, dropped, n_drained,
                   out, reads, bounce, triggered,
                   crushed, id_vars, input_vars,
                   passes, output_vars, middle_vars, resample_vars>>

\* `while let Ok(cmd) = rx.try_recv() { engine.handle_cmd(cmd); }`: one iteration
RecvCmd ==
    /\ pc = "cmds"
    /\ cmd_chan # <<>>
    /\ LET eng == handle_cmd([samples |-> samples, active |-> active,
                              recording |-> recording, completed |-> completed_chan],
                             Head(cmd_chan).cmd)
       IN /\ samples' = eng.samples
          /\ active' = eng.active
          /\ recording' = eng.recording
          /\ completed_chan' = eng.completed
    /\ last' = Some([cmd |-> Head(cmd_chan).cmd, before |-> recording.tag])
    /\ cmd_chan' = Tail(cmd_chan)
    /\ n_applied' = n_applied + 1
    /\ dropped' = completed_dropped(Head(cmd_chan).cmd)
    /\ UNCHANGED <<input_chan, sample_registry, pc, chunks, n_sent, n_accepted,
                   n_chunks, n_callbacks, heard, ignored, n_drained,
                   out, reads, bounce, triggered,
                   crushed, id_vars, input_vars,
                   passes, output_vars, middle_vars, resample_vars>>

\* `if let` for `while let`: the callback goes on after at most one command
CmdsDone_early ==
    /\ pc = "cmds"
    /\ n_applied > 0
    /\ pc' = "input"
    /\ chunks' = <<>>
    /\ UNCHANGED <<cmd_chan, input_chan, completed_chan, sample_registry, samples,
                   active, recording, n_sent, n_accepted, n_applied, n_chunks,
                   n_callbacks, heard, last, ignored, dropped, n_drained,
                   out, reads, bounce, triggered,
                   crushed, id_vars, input_vars,
                   passes, output_vars, middle_vars, resample_vars>>

\* the loop ends when try_recv finds cmd_chan empty; drain_input starts
CmdsDone ==
    /\ pc = "cmds"
    /\ cmd_chan = <<>>
    /\ pc' = "input"
    /\ chunks' = <<>>
    /\ UNCHANGED <<cmd_chan, input_chan, completed_chan, sample_registry, samples,
                   active, recording, n_sent, n_accepted, n_applied, n_chunks,
                   n_callbacks, heard, last, ignored, dropped, n_drained,
                   out, reads, bounce, triggered,
                   crushed, id_vars, input_vars,
                   passes, output_vars, middle_vars, resample_vars>>

\* drain_input: `while let Ok(chunk) = rx.try_recv() { chunks.push(chunk); }`
DrainRecv ==
    /\ pc = "input"
    /\ input_chan # <<>>
    /\ chunks' = Append(chunks, Head(input_chan))
    /\ input_chan' = Tail(input_chan)
    /\ UNCHANGED <<cmd_chan, completed_chan, sample_registry, samples, active,
                   recording, pc, n_sent, n_accepted, n_applied, n_chunks,
                   n_callbacks, heard, last, ignored, dropped, n_drained,
                   out, reads, bounce, triggered,
                   crushed, id_vars, input_vars,
                   passes, output_vars, middle_vars, resample_vars>>

\* a drain_input that puts the chunks back on the queue while Idle
DrainDone_requeue ==
    /\ pc = "input"
    /\ input_chan = <<>>
    /\ recording' = drain_input(recording, chunks)
    /\ input_chan' = IF recording.tag = "Idle" THEN chunks ELSE input_chan
    /\ chunks' = <<>>
    /\ pc' = "render"
    /\ last' = None
    /\ UNCHANGED <<cmd_chan, completed_chan, sample_registry, samples,
                   active, n_sent, n_accepted, n_applied, n_chunks, n_callbacks,
                   heard, ignored, dropped, n_drained,
                   out, reads, bounce, triggered,
                   crushed, id_vars, input_vars,
                   passes, output_vars, middle_vars, resample_vars>>

\* drain_input: try_recv finds input_chan empty; the chunks are processed
DrainDone ==
    /\ pc = "input"
    /\ input_chan = <<>>
    /\ recording' = drain_input(recording, chunks)
    /\ chunks' = <<>>
    /\ pc' = "render"
    /\ last' = None
    /\ UNCHANGED <<cmd_chan, input_chan, completed_chan, sample_registry, samples,
                   active, n_sent, n_accepted, n_applied, n_chunks, n_callbacks,
                   heard, ignored, dropped, n_drained,
                   out, reads, bounce, triggered,
                   crushed, id_vars, input_vars,
                   passes, output_vars, middle_vars, resample_vars>>

\* engine.render_block(frames), and the callback returns: the slice is the
\* device's from then on, and `out` holds a slice only in the specifications
\* that call render_block themselves
RenderBlock(frames) ==
    /\ pc = "render"
    /\ LET r == render_block(active, samples, frames)
       IN active' = r.active /\ out' = <<>> /\ reads' = reads \o r.reads
    /\ pc' = "idle"
    /\ last' = None
    /\ UNCHANGED <<cmd_chan, input_chan, completed_chan, sample_registry, samples,
                   recording, chunks, n_sent, n_accepted, n_applied, n_chunks,
                   n_callbacks, heard, ignored, dropped, n_drained, bounce, triggered,
                   crushed, id_vars, input_vars,
                   passes, output_vars, middle_vars, resample_vars>>

\* the steps of the output callback once entered
Callback ==
    \/ RecvCmd
    \/ CmdsDone
    \/ DrainRecv
    \/ DrainDone
    \/ \E frames \in OutSlices : RenderBlock(frames)

Next ==
    \/ n_sent < MaxSends /\ \E cmd \in LiveCommands : Send(cmd)
    \/ Poll
    \/ n_chunks < MaxChunks /\ \E output \in LiveChunks : InputCallback(output)
    \/ n_callbacks < MaxCallbacks /\ CallbackStart
    \/ Callback

Spec == Init /\ [][Next]_vars

\* the live system with more traffic of fewer kinds: enough to fill each channel
NextChan ==
    \/ n_sent < MaxChanSends /\ \E cmd \in ChanCommands : Send(cmd)
    \/ Poll
    \/ n_chunks < MaxChanChunks /\ \E output \in ChanChunks : InputCallback(output)
    \/ n_callbacks < MaxChanCallbacks /\ CallbackStart
    \/ Callback

SpecChan == Init /\ [][NextChan]_vars

----------------------------------------------------------------------------
(* The engine alone: handle_cmd, drain_input and render_block called in any  *)
(* order with any arguments, as the output callback and bounce_offline call  *)
(* them.  n_applied counts the commands, heard the frames drained since the  *)
(* last StartRecording, last the command handled last and the recording      *)
(* state it met, ignored the ids of the Triggers that met no sample.         *)

EngineValue ==
    [samples |-> samples, active |-> active, recording |-> recording,
     completed |-> completed_chan]

HandleCmd(cmd) ==
    /\ n_applied' = n_applied + 1
    /\ LET eng == handle_cmd(EngineValue, cmd)
       IN /\ samples' = eng.samples
          /\ active' = eng.active
          /\ recording' = eng.recording
          /\ completed_chan' = eng.completed
    /\ last' = Some([cmd |-> cmd, before |-> recording.tag])
    /\ heard' = IF cmd.type = "StartRecording" THEN <<>> ELSE heard
    /\ ignored' = IF cmd.type = "Trigger" /\ cmd.params.sample_id \notin DOMAIN samples
                  THEN ignored \cup {cmd.params.sample_id} ELSE ignored
    /\ dropped' = completed_dropped(cmd)
    /\ triggered' = IF cmd.type = "Trigger" /\ cmd.params.sample_id \in DOMAIN samples
                    THEN Append(triggered, cmd.params) ELSE triggered
    /\ UNCHANGED <<cmd_chan, input_chan, sample_registry, pc, chunks, n_sent,
                   n_accepted, n_chunks, n_callbacks, n_drained,
                   out, reads, bounce,
                   crushed, id_vars, input_vars,
                   passes, output_vars, middle_vars, resample_vars>>

\* the batches of chunks that hold the frames `flat`: none, one chunk, or two
\* chunks cut at any place (an empty chunk included)
BatchesOf(flat) ==
    {<<flat>>} \cup {<<SubSeq(flat, 1, j), SubSeq(flat, j + 1, Len(flat))>> : j \in 0..Len(flat)}
    \cup (IF flat = <<>> THEN {<<>>} ELSE {})

\* the frames one drain_input may receive; while Idle they are dropped whatever
\* they hold
DrainRoom(budget) ==
    IF recording.tag = "Idle" THEN Min(1, MaxDrain)
    ELSE Min(MaxDrain, budget - n_drained)

DrainInput(cs) ==
    /\ recording' = drain_input(recording, cs)
    /\ heard' = IF recording.tag = "Idle" THEN heard ELSE heard \o Flatten(cs)
    /\ n_drained' = IF recording.tag = "Idle" THEN n_drained
                    ELSE n_drained + Len(Flatten(cs))
    /\ last' = None
    /\ UNCHANGED <<cmd_chan, input_chan, completed_chan, sample_registry, samples,
                   active, pc, chunks, n_sent, n_accepted, n_applied, n_chunks,
                   n_callbacks, ignored, dropped,
                   out, reads, bounce, triggered,
                   crushed, id_vars, input_vars,
                   passes, output_vars, middle_vars, resample_vars>>

Render(frames) ==
    /\ LET r == render_block(active, samples, frames)
       IN active' = r.active /\ out' = r.out /\ reads' = reads \o r.reads
    /\ last' = None
    /\ UNCHANGED <<cmd_chan, input_chan, completed_chan, sample_registry, samples,
                   recording, pc, chunks, n_sent, n_accepted, n_applied, n_chunks,
                   n_callbacks, heard, ignored, dropped, n_drained, bounce, triggered,
                   crushed, id_vars, input_vars,
                   passes, output_vars, middle_vars, resample_vars>>

NextEngine ==
    \/ n_applied < MaxCmds /\ \E cmd \in EngineCommands : HandleCmd(cmd)
    \/ \E flat \in SeqsUpTo(MicFrames, DrainRoom(MaxEngineHeard)) :
          \E cs \in BatchesOf(flat) : DrainInput(cs)
    \/ \E frames \in OutSlices : Render(frames)
    \/ Poll

SpecEngine == Init /\ [][NextEngine]_vars

\* the engine under recording commands only, with enough of them for two captures
NextRec ==
    \/ n_applied < MaxRecCmds /\ \E cmd \in RecCommands : HandleCmd(cmd)
    \/ \E flat \in SeqsUpTo(RecFrames, DrainRoom(MaxRecHeard)) :
          \E cs \in BatchesOf(flat) : DrainInput(cs)
    \/ Poll

SpecRec == Init /\ [][NextRec]_vars

\* Engine::new
Engine_new == [samples |-> EmptyMap, active |-> <<>>, recording |-> Idle, completed |-> <<>>]

\* the engine once RegisterSample has been handled for two samples; what is
\* played, repositioned and stopped from there is SpecMix
InitMix ==
    /\ LET eng == handle_cmd(handle_cmd(Engine_new, RegisterSample(1, MixBuffer1)),
                             RegisterSample(2, MixBuffer2))
       IN /\ samples = eng.samples /\ active = eng.active
          /\ recording = eng.recording /\ completed_chan = eng.completed
    /\ cmd_chan = <<>> /\ input_chan = <<>> /\ sample_registry = EmptyMap
    /\ pc = "idle" /\ chunks = <<>>
    /\ n_sent = 0 /\ n_accepted = 0 /\ n_applied = 0 /\ n_chunks = 0
    /\ n_callbacks = 0 /\ heard = <<>> /\ last = None /\ ignored = {}
    /\ dropped = [cmd |-> 0, input |-> 0, completed |-> 0] /\ n_drained = 0
    /\ out = <<>> /\ reads = <<>> /\ bounce = None /\ triggered = <<>>
    /\ Elsewhere

NextMix ==
    \/ n_applied < MaxMixCmds /\ \E cmd \in MixCommands : HandleCmd(cmd)
    \/ \E frames \in OutSlices : Render(frames)

SpecMix == InitMix /\ [][NextMix]_vars

\* the engine once one RegisterSample and one Trigger of that sample have been
\* handled, for every buffer and every Trigger of the sets above; the voice is
\* then rendered in blocks of every size, repositioned, and its buffer replaced
InitVoice ==
    /\ \E buffer \in VoiceBuffers, params \in VoiceParams :
          LET eng == handle_cmd(handle_cmd(Engine_new, RegisterSample(1, buffer)),
                                Trigger(params))
          IN /\ samples = eng.samples /\ active = eng.active
             /\ recording = eng.recording /\ completed_chan = eng.completed
             /\ triggered = <<params>>
    /\ cmd_chan = <<>> /\ input_chan = <<>> /\ sample_registry = EmptyMap
    /\ pc = "idle" /\ chunks = <<>>
    /\ n_sent = 0 /\ n_accepted = 0 /\ n_applied = 0 /\ n_chunks = 0
    /\ n_callbacks = 0 /\ heard = <<>> /\ last = None /\ ignored = {}
    /\ dropped = [cmd |-> 0, input |-> 0, completed |-> 0] /\ n_drained = 0
    /\ out = <<>> /\ reads = <<>> /\ bounce = None
    /\ Elsewhere

NextVoice ==
    \/ n_applied < MaxVoiceCmds /\ \E cmd \in VoiceCommands : HandleCmd(cmd)
    \/ \E frames \in OutSlices : Render(frames)

SpecVoice == InitVoice /\ [][NextVoice]_vars

\* the Triggers of SpecChain: sample 1 through two bitcrushers in either order,
\* sample 2 through one and through none
ChainCommands ==
    {Trigger(TriggerParamsFull(1, 0, 3, 1, PosScale,
                               <<EffectSpec_Bitcrusher(5), EffectSpec_Bitcrusher(3)>>,
                               FALSE, None)),
     Trigger(TriggerParamsFull(1, 0, 3, 1, PosScale,
                               <<EffectSpec_Bitcrusher(3), EffectSpec_Bitcrusher(5)>>,
                               FALSE, None)),
     Trigger(TriggerParamsFull(2, 0, 2, 1, PosScale, <<EffectSpec_Bitcrusher(3)>>,
                               FALSE, None)),
     Trigger(TriggerParamsFull(2, 0, 2, 1, PosScale, <<>>, FALSE, None)),
     StopAllVoices}

\* the engine of InitMix playing voices with effect chains
NextChain ==
    \/ n_applied < MaxChainCmds /\ \E cmd \in ChainCommands : HandleCmd(cmd)
    \/ \E frames \in OutSlices : Render(frames)

SpecChain == InitMix /\ [][NextChain]_vars

\* the buffers and Triggers of SpecPlay: windows shorter than, equal to and longer
\* than the buffer, the pitches 0.5, 1 and 2 and one far above the stutter period
PlayBuffers == {<<VoiceFrame1>>, <<VoiceFrame1, VoiceFrame2, VoiceFrame3>>}
PlayParams ==
    {TriggerParamsFull(1, ts, len, 1, pitch, <<>>, rev, st) :
        ts \in {0, 1}, len \in {0, 2, usize_MAX},
        pitch \in {1, PosScale, 2 * PosScale, HugePitch},
        rev \in BOOLEAN, st \in {None, Some(2)}}

\* one voice as in InitVoice, to be rendered until it is gone
InitPlay ==
    /\ \E buffer \in PlayBuffers, params \in PlayParams :
          LET eng == handle_cmd(handle_cmd(Engine_new, RegisterSample(1, buffer)),
                                Trigger(params))
          IN /\ samples = eng.samples /\ active = eng.active
             /\ recording = eng.recording /\ completed_chan = eng.completed
             /\ triggered = <<params>>
    /\ cmd_chan = <<>> /\ input_chan = <<>> /\ sample_registry = EmptyMap
    /\ pc = "idle" /\ chunks = <<>>
    /\ n_sent = 0 /\ n_accepted = 0 /\ n_applied = 0 /\ n_chunks = 0
    /\ n_callbacks = 0 /\ heard = <<>> /\ last = None /\ ignored = {}
    /\ dropped = [cmd |-> 0, input |-> 0, completed |-> 0] /\ n_drained = 0
    /\ out = <<>> /\ reads = <<>> /\ bounce = None
    /\ Elsewhere

\* one render pass: render_block on a non-empty slice, which returns or not
RenderPass(frames) ==
    /\ pc = "idle" /\ Len(frames) > 0 /\ Len(passes) < MaxPasses
    /\ IF render_block_diverges(active, samples, Len(frames))
       THEN /\ pc' = "hung"
            /\ UNCHANGED <<active, out, reads, passes>>
       ELSE /\ LET r == render_block(active, samples, frames)
               IN active' = r.active /\ out' = r.out /\ reads' = reads \o r.reads
            /\ passes' = Append(passes, Len(frames))
            /\ pc' = pc
    /\ last' = None
    /\ UNCHANGED <<cmd_chan, input_chan, completed_chan, sample_registry, samples,
                   recording, chunks, n_sent, n_accepted, n_applied, n_chunks,
                   n_callbacks, heard, ignored, dropped, n_drained, bounce, triggered,
                   crushed, id_vars, input_vars, output_vars, middle_vars,
                   resample_vars>>

NextPlay == \E frames \in OutSlices : RenderPass(frames)

\* render_block keeps being called for as long as the previous call returned
SpecPlay == InitPlay /\ [][NextPlay]_vars /\ WF_vars(NextPlay)

\* the sample formats a device may report
SampleFormats == {"F32", "I16", "U16"}

\* start_audio on a default output device of that format and channel count:
\* any format but f32 is refused, any channel count is taken
StartAudio(sample_format, channels) ==
    /\ output_stream = None
    /\ output_stream' = IF sample_format = "F32" THEN Some([channels |-> channels])
                        ELSE None
    /\ UNCHANGED <<cmd_chan, input_chan, completed_chan, sample_registry, samples,
                   active, recording, pc, chunks, n_sent, n_accepted, n_applied,
                   n_chunks, n_callbacks, heard, last, ignored, dropped, n_drained,
                   out, reads, bounce, triggered, crushed, id_vars, input_vars,
                   passes, callback_data, middle_vars, resample_vars>>

\* the output callback on a device buffer of data_len floats, both queues being
\* empty: n_frames = data.len() / channels, and render_block on the n_frames
\* StereoFrames that start where data starts.  A slice that is longer than data
\* is undefined behaviour: the writes land beyond the buffer or the process dies.
OutputCallback(data_len) ==
    /\ output_stream # None /\ pc = "idle"
    /\ LET channels == output_stream[1].channels
           n_frames == data_len \div channels
           r == render_block(active, samples, Zeros(n_frames))
       IN /\ callback_data' = Some([data_len |-> data_len, n_frames |-> n_frames])
          /\ active' = r.active /\ out' = r.out /\ reads' = reads \o r.reads
          /\ pc' \in IF 2 * n_frames > data_len THEN {"idle", "crashed"} ELSE {"idle"}
    /\ n_callbacks' = n_callbacks + 1
    /\ last' = None
    /\ UNCHANGED <<cmd_chan, input_chan, completed_chan, sample_registry, samples,
                   recording, chunks, n_sent, n_accepted, n_applied, n_chunks,
                   heard, ignored, dropped, n_drained, bounce, triggered,
                   crushed, id_vars, input_vars, passes, output_stream, middle_vars,
                   resample_vars>>

\* the commands the callbacks of SpecOut find handled
OutCommands ==
    {RegisterSample(1, MixBuffer1),
     Trigger(TriggerParamsFull(1, 0, 3, 1, PosScale, <<>>, FALSE, None))}

\* start_audio, then callbacks on buffers of up to MaxBlock frames of the
\* device's channel count
NextOut ==
    \/ \E sample_format \in SampleFormats, channels \in 1..MaxChannels :
          StartAudio(sample_format, channels)
    \/ output_stream # None /\ pc = "idle" /\ n_applied < MaxOutCmds
          /\ \E cmd \in OutCommands : HandleCmd(cmd)
    \/ n_callbacks < MaxOutCallbacks /\ output_stream # None
          /\ \E k \in 0..MaxBlock : OutputCallback(k * output_stream[1].channels)

SpecOut == Init /\ [][NextOut]_vars

\* the recording state machine through one arm cycle, fed every short sequence of
\* microphone frames
NextCapture ==
    \/ n_applied < MaxCaptureCmds /\ \E cmd \in CaptureCommands : HandleCmd(cmd)
    \/ \E flat \in SeqsUpTo(MicFrames, DrainRoom(MaxHeard)) :
          \E cs \in BatchesOf(flat) : DrainInput(cs)

SpecCapture == Init /\ [][NextCapture]_vars

----------------------------------------------------------------------------
(* Claims *)

\* C1: the commands still in cmd_chan are the accepted ones not yet applied, in
\* the order they were accepted
C1_Fifo ==
    /\ n_accepted = n_applied + Len(cmd_chan)
    /\ \A i \in 1..Len(cmd_chan) : cmd_chan[i].seq = n_applied + i

\* C1: a step of the output callback: handle_cmd runs only in the command loop, on
\* the oldest command; a command sent during the loop is applied in the same
\* callback and one sent at any other time in the next one; the loop is left only
\* with cmd_chan empty; drain_input and render_block follow in that order
C1_Step ==
    /\ n_applied' # n_applied =>
          /\ pc = "cmds" /\ pc' = "cmds" /\ cmd_chan # <<>>
          /\ n_applied' = n_applied + 1
          /\ Head(cmd_chan).seq = n_applied + 1
          /\ cmd_chan' = Tail(cmd_chan)
          /\ Head(cmd_chan).at = "cmds" => Head(cmd_chan).cb = n_callbacks
          /\ Head(cmd_chan).at # "cmds" => Head(cmd_chan).cb + 1 = n_callbacks
    /\ pc' # pc =>
          \/ pc = "idle" /\ pc' = "cmds"
          \/ pc = "cmds" /\ pc' = "input" /\ cmd_chan = <<>>
          \/ pc = "input" /\ pc' = "render"
          \/ pc = "render" /\ pc' = "idle"
    /\ samples' # samples => pc = "cmds" /\ n_applied' # n_applied
    /\ recording' # recording =>
          \/ pc = "cmds" /\ n_applied' # n_applied
          \/ pc = "input" /\ pc' = "render"
    /\ active' # active =>
          \/ pc = "cmds" /\ n_applied' # n_applied
          \/ pc = "render" /\ pc' = "idle"

\* C1: in every output callback the queued commands are applied in the order they
\* were enqueued, then drain_input runs, then render_block; no command is applied
\* during a render, and one enqueued during it waits for the next callback
C1_CommandOrder == []C1_Fifo /\ [][C1_Step]_vars

\* a second callback is about to apply a command that was sent while the first
\* one rendered, after two commands were applied
C1_Witness ==
    /\ pc = "cmds" /\ n_applied >= 2 /\ cmd_chan # <<>>
    /\ Head(cmd_chan).at = "render" /\ Head(cmd_chan).cb + 1 = n_callbacks
    /\ active # <<>>

\* C2: no producer and no consumer of a channel ever waits
C2_NonBlocking ==
    /\ Len(cmd_chan) >= CmdChanCap => \A cmd \in ChanCommands : ENABLED Send(cmd)
    /\ Len(input_chan) >= InputChanCap =>
          \A output \in ChanChunks : ENABLED InputCallback(output)
    /\ (pc = "cmds" /\ Len(completed_chan) >= CompletedChanCap) =>
          ENABLED (RecvCmd \/ CmdsDone)
    /\ (pc = "cmds" /\ cmd_chan = <<>>) => ENABLED CmdsDone
    /\ (pc = "input" /\ input_chan = <<>>) => ENABLED DrainDone
    /\ completed_chan = <<>> => ENABLED Poll

\* C2: a try_send on a full channel leaves the channel as it was, and one on a
\* channel with room appends the item behind those queued
C2_Step ==
    /\ n_sent' # n_sent =>
          IF Len(cmd_chan) >= CmdChanCap THEN cmd_chan' = cmd_chan
          ELSE Len(cmd_chan') = Len(cmd_chan) + 1
               /\ SubSeq(cmd_chan', 1, Len(cmd_chan)) = cmd_chan
    /\ n_chunks' # n_chunks =>
          IF Len(input_chan) >= InputChanCap THEN input_chan' = input_chan
          ELSE Len(input_chan') = Len(input_chan) + 1
               /\ SubSeq(input_chan', 1, Len(input_chan)) = input_chan
    /\ (n_applied' # n_applied /\ Len(completed_chan) >= CompletedChanCap) =>
          completed_chan' = completed_chan
    /\ (n_applied' # n_applied /\ completed_chan' # completed_chan) =>
          Len(completed_chan') = Len(completed_chan) + 1
          /\ SubSeq(completed_chan', 1, Len(completed_chan)) = completed_chan

\* C2: on each of the three channels an enqueue on a full channel drops the new
\* item only, and neither side ever blocks
C2_DropNewest == []C2_NonBlocking /\ [][C2_Step]_vars

\* each channel has refused an item and is full
C2_Witness ==
    /\ dropped.cmd > 0 /\ dropped.input > 0 /\ dropped.completed > 0
    /\ Len(completed_chan) = CompletedChanCap

----------------------------------------------------------------------------
(* bounce_offline (audio/mod.rs): its own Engine, the samples registered,    *)
(* then one step of the pattern at a time.  The engine fields of the state   *)
(* are those of that Engine.                                                 *)

RECURSIVE handle_cmds(_, _)
\* `for cmd in cmds { engine.handle_cmd(cmd.clone()) }`
handle_cmds(eng, cmds) ==
    IF cmds = <<>> THEN eng ELSE handle_cmds(handle_cmd(eng, Head(cmds)), Tail(cmds))

\* a step that renders its segment before it applies its commands
bounce_step_render_first(eng, cmds, slice) ==
    LET r == render_block(eng.active, eng.samples, slice)
        e == handle_cmds([eng EXCEPT !.active = r.active], cmds)
    IN [eng |-> e, out |-> r.out, reads |-> r.reads]

\* the body of the loop over the steps: the commands, then render_block on the
\* step's segment of the output
bounce_step(eng, cmds, slice) ==
    LET e == handle_cmds(eng, cmds)
        r == render_block(e.active, e.samples, slice)
    IN [eng |-> [e EXCEPT !.active = r.active], out |-> r.out, reads |-> r.reads]

\* bounce_offline up to its loop
BounceStart(smp, step_commands, frames_per_step) ==
    /\ bounce = None
    /\ samples' = smp /\ active' = <<>> /\ recording' = Idle
    /\ bounce' = Some([step_commands |-> step_commands,
                       frames_per_step |-> frames_per_step,
                       step_idx |-> 0,
                       output |-> Zeros(Len(step_commands) * frames_per_step)])
    /\ UNCHANGED <<cmd_chan, input_chan, completed_chan, sample_registry, pc, chunks,
                   n_sent, n_accepted, n_applied, n_chunks, n_callbacks, heard, last,
                   ignored, dropped, n_drained, out, reads, triggered,
                   crushed, id_vars, input_vars,
                   passes, output_vars, middle_vars, resample_vars>>

\* one iteration of the loop
BounceStep ==
    /\ bounce # None
    /\ bounce[1].step_idx < Len(bounce[1].step_commands)
    /\ LET b == bounce[1]
           start == b.step_idx * b.frames_per_step
           end == start + b.frames_per_step
           r == bounce_step(EngineValue, b.step_commands[b.step_idx + 1],
                            SubSeq(b.output, start + 1, end))
       IN /\ samples' = r.eng.samples /\ active' = r.eng.active
          /\ recording' = r.eng.recording /\ completed_chan' = r.eng.completed
          /\ out' = r.out /\ reads' = reads \o r.reads
          /\ bounce' = Some([b EXCEPT !.step_idx = @ + 1,
                                      !.output = [j \in 1..Len(b.output) |->
                                          IF j > start /\ j <= end THEN r.out[j - start]
                                          ELSE b.output[j]]])
    /\ UNCHANGED <<cmd_chan, input_chan, sample_registry, pc, chunks, n_sent,
                   n_accepted, n_applied, n_chunks, n_callbacks, heard, last, ignored,
                   dropped, n_drained, triggered,
                   crushed, id_vars, input_vars,
                   passes, output_vars, middle_vars, resample_vars>>

NextBounce ==
    \/ \E step_commands \in SeqsUpTo(BounceStepCommands, MaxSteps),
          frames_per_step \in 0..MaxFramesPerStep :
          BounceStart((1 :> MixBuffer1) @@ (2 :> MixBuffer2), step_commands, frames_per_step)
    \/ BounceStep

SpecBounce == Init /\ [][NextBounce]_vars

----------------------------------------------------------------------------
(* A Bitcrusher alone (effect.rs): made from an EffectSpec and run on a      *)
(* buffer of one frame.                                                       *)

\* sample values from below -1.0 to above 1.0, in output units
CrushValues == {k * OutUnit : k \in {-120, -100, -90, -60, -30, 0, 30, 60, 90, 100, 120}}

Crush(levels, buf) ==
    /\ LET effect == to_effect(EffectSpec_Bitcrusher(levels))
       IN crushed' = Some([levels |-> levels, effect |-> effect, input |-> buf,
                           output |-> process(effect, buf)])
    /\ UNCHANGED <<cmd_chan, input_chan, completed_chan, sample_registry, samples,
                   active, recording, pc, chunks, n_sent, n_accepted, n_applied,
                   n_chunks, n_callbacks, heard, last, ignored, dropped, n_drained,
                   out, reads, bounce, triggered, id_vars, input_vars,
                   passes, output_vars, middle_vars, resample_vars>>

NextCrush ==
    \E levels \in 0..MaxLevels, l \in CrushValues, r \in CrushValues :
        Crush(levels, <<StereoFrame(l, r)>>)

SpecCrush == Init /\ [][NextCrush]_vars

----------------------------------------------------------------------------
(* next_sample_id (sample_id.rs) called from several threads.  The           *)
(* fetch_add is one atomic step; handing the value back to the caller is a    *)
(* later step of the same thread.                                             *)

\* a fetch_add that leaves the counter as it was
fetch_add_no_store(counter, n) == [prev |-> counter, next |-> counter]

\* AtomicU64::fetch_add: the previous value, and the value stored
fetch_add(counter, n) == [prev |-> counter, next |-> counter + n]

\* `NEXT_ID.fetch_add(1, Ordering::Relaxed)` in thread t
FetchAdd(t) ==
    /\ fetched[t] = None
    /\ NEXT_ID < MaxIds
    /\ LET r == fetch_add(NEXT_ID, 1)
       IN /\ NEXT_ID' = r.next
          /\ fetched' = [fetched EXCEPT ![t] = Some(SampleId(r.prev))]
    /\ UNCHANGED <<cmd_chan, input_chan, completed_chan, sample_registry, samples,
                   active, recording, pc, chunks, n_sent, n_accepted, n_applied,
                   n_chunks, n_callbacks, heard, last, ignored, dropped, n_drained,
                   out, reads, bounce, triggered, crushed, returned_ids, input_vars,
                   passes, output_vars, middle_vars, resample_vars>>

\* next_sample_id returns in thread t
ReturnId(t) ==
    /\ fetched[t] # None
    /\ returned_ids' = [returned_ids EXCEPT ![t] = Append(@, fetched[t][1])]
    /\ fetched' = [fetched EXCEPT ![t] = None]
    /\ UNCHANGED <<cmd_chan, input_chan, completed_chan, sample_registry, samples,
                   active, recording, pc, chunks, n_sent, n_accepted, n_applied,
                   n_chunks, n_callbacks, heard, last, ignored, dropped, n_drained,
                   out, reads, bounce, triggered, crushed, NEXT_ID, input_vars,
                   passes, output_vars, middle_vars, resample_vars>>

NextIds ==
    \/ \E t \in Threads : FetchAdd(t)
    \/ \E t \in Threads : ReturnId(t)

SpecIds == Init /\ [][NextIds]_vars


----------------------------------------------------------------------------
(* Middle (middle.rs): handle_input for the buttons, the slot selection and  *)
(* the trim knobs.  A knob's delta is in hundredths.  The patterns, the      *)
(* sequencer and the other knobs are not modelled.                           *)

InputEvent(type) == [type |-> type]
SelectSound(n) == [type |-> "SelectSound", n |-> n]
AdjustTrimStart(delta) == [type |-> "AdjustTrimStart", delta |-> delta]
AdjustTrimLength(delta) == [type |-> "AdjustTrimLength", delta |-> delta]

\* `a + b` on usize: the wrapped sum, and whether it overflowed
usize_add(a, b) == [value |-> (a + b) % (usize_MAX + 1), overflow |-> a + b > usize_MAX]

saturating_sub(a, b) == Max(a - b, 0)

\* `(max as f32 * delta.abs()).max(1.0) as usize`
step_size(max, delta) == Max((max * Abs(delta)) \div 100, 1)

\* the AdjustTrimStart arm on one slot: the slot, and whether `+` overflowed
adjust_trim_start(sound, delta) ==
    LET max == saturating_sub(sound.buffer_len, 1)
        sum == usize_add(sound.trim_start, step_size(max, delta))
        trim_start == IF delta > 0 THEN Min(sum.value, max)
                      ELSE saturating_sub(sound.trim_start, step_size(max, delta))
        remaining == saturating_sub(sound.buffer_len, trim_start)
    IN [sound |-> [sound EXCEPT !.trim_start = trim_start,
                                !.length = Min(@, remaining)],
        overflow |-> delta > 0 /\ sum.overflow]

\* the AdjustTrimLength arm on one slot
adjust_trim_length(sound, delta) ==
    LET max == saturating_sub(sound.buffer_len, sound.trim_start)
        sum == usize_add(sound.length, step_size(max, delta))
        length == IF delta > 0 THEN Min(sum.value, max)
                  ELSE Max(saturating_sub(sound.length, step_size(max, delta)), 1)
    IN [sound |-> [sound EXCEPT !.length = length],
        overflow |-> delta > 0 /\ sum.overflow]

\* the RecordDown arm when neither pattern nor sound is held, on the selected slot
start_mic_recording(sound, sid) ==
    [sound EXCEPT !.sample_id = Some(sid), !.sample_path = "(recording)",
                  !.trim_start = 0, !.buffer_len = 0, !.length = usize_MAX]

\* handle_input on the Middle value m = [held, selected_sound, sounds, NEXT_ID]:
\* the value it leaves, the commands it returns, and whether an addition
\* overflowed
handle_input(m, event) ==
    LET quiet(n) == [m |-> n, cmds |-> <<>>, overflow |-> FALSE] IN
    CASE event.type = "SoundDown" -> quiet([m EXCEPT !.held.sound = TRUE])
      [] event.type = "SoundUp" -> quiet([m EXCEPT !.held.sound = FALSE])
      [] event.type = "PatternDown" -> quiet([m EXCEPT !.held.pattern = TRUE])
      [] event.type = "PatternUp" -> quiet([m EXCEPT !.held.pattern = FALSE])
      [] event.type = "RecordDown" ->
            IF m.held.pattern THEN quiet([m EXCEPT !.held.record = TRUE])
            ELSE IF ~m.held.sound
            THEN LET r == fetch_add(m.NEXT_ID, 1)
                     sid == SampleId(r.prev)
                 IN [m |-> [m EXCEPT !.held.record = TRUE, !.NEXT_ID = r.next,
                                     !.sounds[m.selected_sound] =
                                         start_mic_recording(@, sid)],
                     cmds |-> <<StartRecording(sid)>>, overflow |-> FALSE]
            ELSE quiet([m EXCEPT !.held.record = TRUE])
      [] event.type = "RecordUp" ->
            [m |-> [m EXCEPT !.held.record = FALSE], cmds |-> <<StopRecording>>,
             overflow |-> FALSE]
      [] event.type = "SelectSound" -> quiet([m EXCEPT !.selected_sound = event.n])
      [] event.type = "AdjustTrimStart" ->
            LET r == adjust_trim_start(m.sounds[m.selected_sound], event.delta)
            IN [m |-> [m EXCEPT !.sounds[m.selected_sound] = r.sound],
                cmds |-> <<>>, overflow |-> r.overflow]
      [] event.type = "AdjustTrimLength" ->
            LET r == adjust_trim_length(m.sounds[m.selected_sound], event.delta)
            IN [m |-> [m EXCEPT !.sounds[m.selected_sound] = r.sound],
                cmds |-> <<>>, overflow |-> r.overflow]

\* the main loop takes one event: handle_input, then audio.send for each command
\* it returned.  An addition that overflows panics in a build with overflow
\* checks and wraps in one without.
HandleInput(event) ==
    /\ ~panicked
    /\ LET r == handle_input([held |-> held, selected_sound |-> selected_sound,
                              sounds |-> sounds, NEXT_ID |-> NEXT_ID], event)
       IN /\ Len(emitted) + Len(r.cmds) <= MaxEmitted
          /\ \/ /\ r.overflow
                /\ panicked' = TRUE /\ overflowed' = TRUE
                /\ UNCHANGED <<held, selected_sound, sounds, NEXT_ID, emitted, n_sent>>
             \/ /\ held' = r.m.held /\ selected_sound' = r.m.selected_sound
                /\ sounds' = r.m.sounds /\ NEXT_ID' = r.m.NEXT_ID
                /\ emitted' = emitted \o r.cmds
                /\ n_sent' = n_sent + Len(r.cmds)
                /\ overflowed' = (overflowed \/ r.overflow)
                /\ panicked' = panicked
    /\ n_turns' = IF event.type \in {"AdjustTrimStart", "AdjustTrimLength"}
                  THEN n_turns + 1 ELSE n_turns
    /\ UNCHANGED <<cmd_chan, input_chan, completed_chan, sample_registry, samples,
                   active, recording, pc, chunks, n_accepted, n_applied,
                   n_chunks, n_callbacks, heard, last, ignored, dropped, n_drained,
                   out, reads, bounce, triggered, crushed, fetched, returned_ids,
                   input_vars, passes, output_vars, resample_vars>>

\* the output callback handles the oldest command the control thread sent
ApplyEmitted ==
    /\ emitted # <<>>
    /\ LET eng == handle_cmd(EngineValue, Head(emitted))
       IN /\ samples' = eng.samples /\ active' = eng.active
          /\ recording' = eng.recording /\ completed_chan' = eng.completed
    /\ emitted' = Tail(emitted)
    /\ last' = Some([cmd |-> Head(emitted), before |-> recording.tag])
    /\ n_applied' = n_applied + 1
    /\ dropped' = completed_dropped(Head(emitted))
    /\ UNCHANGED <<cmd_chan, input_chan, sample_registry, pc, chunks, n_sent,
                   n_accepted, n_chunks, n_callbacks, heard, ignored, n_drained,
                   out, reads, bounce, triggered, crushed, id_vars, input_vars,
                   passes, output_vars, held, selected_sound, sounds, panicked,
                   overflowed, n_turns, resample_vars>>

\* the buttons and the slot selection
ButtonEvents ==
    {InputEvent(t) : t \in {"SoundDown", "SoundUp", "PatternDown", "PatternUp",
                            "RecordDown", "RecordUp"}}
    \cup {SelectSound(n) : n \in Slots}

\* the control thread under button events, the engine handling what it sends and
\* draining the microphone in between
NextMiddle ==
    \/ \E event \in ButtonEvents :
          /\ event.type \in {"RecordDown", "RecordUp"} => n_sent < MaxMiddleCmds
          /\ HandleInput(event)
    \/ ApplyEmitted
    \/ \E flat \in SeqsUpTo({LoudFrame}, DrainRoom(MaxMiddleHeard)) : DrainInput(<<flat>>)

SpecMiddle == Init /\ [][NextMiddle]_vars


\* load_sample_into_slot for a file of len frames: sample_loader::load takes the
\* next id, the slot describes the whole buffer, and main sends RegisterSample
LoadSampleIntoSlot(slot, len) ==
    /\ ~panicked
    /\ Len(emitted) < MaxEmitted
    /\ LET r == fetch_add(NEXT_ID, 1)
           sample_id == SampleId(r.prev)
           buffer == SampleBuffer_from_frames(Zeros(len))
       IN /\ NEXT_ID' = r.next
          /\ sounds' = [sounds EXCEPT ![slot] =
                 [@ EXCEPT !.sample_path = "file", !.sample_id = Some(sample_id),
                           !.buffer_len = Len(buffer), !.trim_start = 0,
                           !.length = Len(buffer)]]
          /\ emitted' = Append(emitted, RegisterSample(sample_id, buffer))
    /\ n_sent' = n_sent + 1
    /\ UNCHANGED <<cmd_chan, input_chan, completed_chan, sample_registry, samples,
                   active, recording, pc, chunks, n_accepted, n_applied,
                   n_chunks, n_callbacks, heard, last, ignored, dropped, n_drained,
                   out, reads, bounce, triggered, crushed, fetched, returned_ids,
                   input_vars, passes, output_vars, held, selected_sound, panicked,
                   overflowed, n_turns, resample_vars>>

\* the knob turns of the trim page, in hundredths
TrimDeltas == {-100, -50, -5, 5, 50, 100}

TrimEvents ==
    {AdjustTrimStart(delta) : delta \in TrimDeltas}
    \cup {AdjustTrimLength(delta) : delta \in TrimDeltas}

\* slots are loaded from files or armed for a recording, and the trim knobs
\* turn; the commands sent wait in the queue
NextTrim ==
    \/ \E slot \in Slots, len \in 0..MaxTrimLen :
          n_sent < MaxTrimCmds /\ LoadSampleIntoSlot(slot, len)
    \/ n_sent < MaxTrimCmds /\ HandleInput(InputEvent("RecordDown"))
    \/ \E n \in Slots : HandleInput(SelectSound(n))
    \/ \E event \in TrimEvents : n_turns < MaxTurns /\ HandleInput(event)

SpecTrim == Init /\ [][NextTrim]_vars


----------------------------------------------------------------------------
(* resample_linear (sample_buffer.rs).  An f64 is an integer count of        *)
(* 1/F64Scale and carries f64_MANTISSA_DIGITS significant bits; the frac     *)
(* cast to f32 carries f32_MANTISSA_DIGITS.  The frames returned are in      *)
(* units of 1/F64Scale of a sample unit, which keeps the blend exact.        *)

\* the integer nearest to a / b, ties to the even one
RoundDiv(a, b) ==
    LET q == a \div b
        r == a % b
    IN IF 2 * r > b \/ (2 * r = b /\ q % 2 = 1) THEN q + 1 ELSE q

\* the f64 nearest to x >= 0
f64(x) == RoundToEven(x, Ulp(x, f64_MANTISSA_DIGITS))

\* `p as f64 / q as f64` for integers p >= 0 and q > 0
f64_div(p, q) ==
    LET u == Ulp((p * F64Scale) \div q, f64_MANTISSA_DIGITS)
    IN RoundDiv(p * F64Scale, q * u) * u

\* `i as f64 / ratio` for an integer i >= 0 and an f64 ratio > 0
f64_div_by(i, ratio) ==
    LET u == Ulp((i * F64Scale * F64Scale) \div ratio, f64_MANTISSA_DIGITS)
    IN RoundDiv(i * F64Scale * F64Scale, ratio * u) * u

f64_ceil(x) == (x + F64Scale - 1) \div F64Scale
f64_floor(x) == x \div F64Scale

\* one pass of the loop of resample_linear: the frame pushed for output index i
\* (from 0), with the locals idx and frac, and the indices it read
resample_frame(frames, ratio, i) ==
    LET src_pos == f64_div_by(i, ratio)
        idx == f64_floor(src_pos)
        frac == f32(src_pos - idx * F64Scale)
        rest == f32(F64Scale - frac)
    IN IF idx >= saturating_sub(Len(frames), 1)
       THEN [idx |-> idx, frac |-> frac, reads |-> {},
             frame |-> IF frames = <<>> THEN StereoFrame(0, 0)
                       ELSE StereoFrame(frames[Len(frames)].left * F64Scale,
                                        frames[Len(frames)].right * F64Scale)]
       ELSE LET a == frames[idx + 1]
                b == frames[idx + 2]
            IN [idx |-> idx, frac |-> frac, reads |-> {idx, idx + 1},
                frame |-> StereoFrame(a.left * rest + b.left * frac,
                                      a.right * rest + b.right * frac)]

\* resample_linear: what it returns, frame by frame with the locals
resample_linear(frames, source_rate, target_rate) ==
    IF source_rate = target_rate
    THEN [copied |-> TRUE,
          out |-> [i \in 1..Len(frames) |->
                      [idx |-> i - 1, frac |-> 0, reads |-> {i - 1},
                       frame |-> StereoFrame(frames[i].left * F64Scale,
                                             frames[i].right * F64Scale)]]]
    ELSE LET ratio == f64_div(target_rate, source_rate)
             out_len == f64_ceil(f64(Len(frames) * ratio))
         IN [copied |-> FALSE,
             out |-> [i \in 1..out_len |-> resample_frame(frames, ratio, i - 1)]]

\* a file of n frames, each frame different from its neighbours
Ramp(n) == [i \in 1..n |-> StereoFrame(10 * i, -20 * i)]

\* a call of resample_linear on a file's frames
Resample(frames, source_rate, target_rate) ==
    /\ resample_args' = Some([frames |-> frames, source_rate |-> source_rate,
                              target_rate |-> target_rate])
    /\ resampled' = Some(resample_linear(frames, source_rate, target_rate))
    /\ UNCHANGED <<cmd_chan, input_chan, completed_chan, sample_registry, samples,
                   active, recording, pc, chunks, n_sent, n_accepted, n_applied,
                   n_chunks, n_callbacks, heard, last, ignored, dropped, n_drained,
                   out, reads, bounce, triggered, crushed, id_vars, input_vars,
                   passes, output_vars, middle_vars>>

NextResample ==
    \E n \in 0..MaxResampleFrames, source_rate \in Rates, target_rate \in Rates :
        Resample(Ramp(n), source_rate, target_rate)

SpecResample == Init /\ [][NextResample]_vars

----------------------------------------------------------------------------
(* AudioHandle::cycle_input_device (audio/mod.rs), step by step: the device  *)
(* list is read, the index advanced, the old stream dropped, the new one      *)
(* built, and the result stored.  A stream is a number; the devices are       *)
(* 0 .. n-1.                                                                  *)

\* `device.name()` of device i of the host's list
DeviceName(i) == <<"in0", "in1", "in2", "in3", "in4", "in5">>[i + 1]

\* the AudioHandle start_audio returns: the default device's index, and its
\* stream if try_build_input_stream could build one
InitInput ==
    /\ InitAudio
    /\ crushed = None
    /\ NEXT_ID = 0 /\ fetched = [t \in Threads |-> None]
    /\ returned_ids = [t \in Threads |-> <<>>]
    /\ cycle = NotCycling
    /\ passes = <<>> /\ OutputAtRest /\ MiddleAtRest /\ ResampleAtRest
    /\ \E index \in 0..(MaxDevices - 1) : input_device_index = index
    /\ \/ input_stream = None /\ streams = {} /\ n_built = 0
       \/ input_stream = Some(1) /\ streams = {1} /\ n_built = 1

\* `host.input_devices()`, the empty-list return, the index and the name
CycleBegin(n_devices, name_ok) ==
    /\ cycle.pc = "idle" /\ cycle.n_calls < MaxCycles
    /\ IF n_devices = 0
       THEN /\ cycle' = [cycle EXCEPT !.n_calls = @ + 1, !.devices = 0,
                                      !.returned = Some("none")]
            /\ UNCHANGED input_device_index
       ELSE /\ input_device_index' = (input_device_index + 1) % n_devices
            /\ cycle' = [cycle EXCEPT !.pc = "drop", !.n_calls = @ + 1,
                                      !.devices = n_devices, !.returned = None,
                                      !.name = IF name_ok
                                               THEN Some(DeviceName(input_device_index'))
                                               ELSE Some("???")]
    /\ UNCHANGED <<cmd_chan, input_chan, completed_chan, sample_registry, samples,
                   active, recording, pc, chunks, n_sent, n_accepted, n_applied,
                   n_chunks, n_callbacks, heard, last, ignored, dropped, n_drained,
                   out, reads, bounce, triggered, crushed, id_vars,
                   input_stream, streams, n_built,
                   passes, output_vars, middle_vars, resample_vars>>

\* a cycle that keeps the old stream while it builds the new one
CycleDrop_keep ==
    /\ cycle.pc = "drop"
    /\ cycle' = [cycle EXCEPT !.pc = "build"]
    /\ UNCHANGED <<cmd_chan, input_chan, completed_chan, sample_registry, samples,
                   active, recording, pc, chunks, n_sent, n_accepted, n_applied,
                   n_chunks, n_callbacks, heard, last, ignored, dropped, n_drained,
                   out, reads, bounce, triggered, crushed, id_vars,
                   input_device_index, input_stream, streams, n_built,
                   passes, output_vars, middle_vars, resample_vars>>

\* `self.input_stream = None`
CycleDrop ==
    /\ cycle.pc = "drop"
    /\ input_stream' = None
    /\ streams' = streams \ {input_stream[i] : i \in 1..Len(input_stream)}
    /\ cycle' = [cycle EXCEPT !.pc = "build"]
    /\ UNCHANGED <<cmd_chan, input_chan, completed_chan, sample_registry, samples,
                   active, recording, pc, chunks, n_sent, n_accepted, n_applied,
                   n_chunks, n_callbacks, heard, last, ignored, dropped, n_drained,
                   out, reads, bounce, triggered, crushed, id_vars,
                   input_device_index, n_built,
                   passes, output_vars, middle_vars, resample_vars>>

\* build_input_stream_on_device: Some(stream), or None when the device has no
\* default config, the stream cannot be built or cannot be played
CycleBuild(ok) ==
    /\ cycle.pc = "build"
    /\ IF ok
       THEN /\ n_built' = n_built + 1
            /\ streams' = streams \cup {n_built + 1}
            /\ cycle' = [cycle EXCEPT !.pc = "assign", !.built = Some(n_built + 1)]
       ELSE /\ cycle' = [cycle EXCEPT !.pc = "assign", !.built = None]
            /\ UNCHANGED <<streams, n_built>>
    /\ UNCHANGED <<cmd_chan, input_chan, completed_chan, sample_registry, samples,
                   active, recording, pc, chunks, n_sent, n_accepted, n_applied,
                   n_chunks, n_callbacks, heard, last, ignored, dropped, n_drained,
                   out, reads, bounce, triggered, crushed, id_vars,
                   input_device_index, input_stream,
                   passes, output_vars, middle_vars, resample_vars>>

\* the assignment to self.input_stream, which drops what the field held, and
\* the return of the name
CycleAssign ==
    /\ cycle.pc = "assign"
    /\ input_stream' = cycle.built
    /\ streams' = streams \ {input_stream[i] : i \in 1..Len(input_stream)}
    /\ cycle' = [cycle EXCEPT !.pc = "idle", !.built = None, !.returned = cycle.name]
    /\ UNCHANGED <<cmd_chan, input_chan, completed_chan, sample_registry, samples,
                   active, recording, pc, chunks, n_sent, n_accepted, n_applied,
                   n_chunks, n_callbacks, heard, last, ignored, dropped, n_drained,
                   out, reads, bounce, triggered, crushed, id_vars,
                   input_device_index, n_built,
                   passes, output_vars, middle_vars, resample_vars>>

NextInput ==
    \/ \E n_devices \in 0..MaxDevices, name_ok \in BOOLEAN : CycleBegin(n_devices, name_ok)
    \/ CycleDrop
    \/ \E ok \in BOOLEAN : CycleBuild(ok)
    \/ CycleAssign

SpecInput == InitInput /\ [][NextInput]_vars

----------------------------------------------------------------------------
(* PreRollRing alone: a ring of any small capacity, as PreRollRing::new leaves
   it, pushed one frame at a time; heard is the history of the pushes *)

InitRing ==
    /\ cmd_chan = <<>> /\ input_chan = <<>> /\ completed_chan = <<>>
    /\ sample_registry = EmptyMap
    /\ samples = EmptyMap /\ active = <<>>
    /\ \E capacity \in 0..MaxRingCap : recording = Armed(1, PreRollRing_new(capacity))
    /\ pc = "idle" /\ chunks = <<>>
    /\ n_sent = 0 /\ n_accepted = 0 /\ n_applied = 0 /\ n_chunks = 0
    /\ n_callbacks = 0 /\ heard = <<>> /\ last = None /\ ignored = {}
    /\ dropped = [cmd |-> 0, input |-> 0, completed |-> 0] /\ n_drained = 0
    /\ out = <<>> /\ reads = <<>> /\ bounce = None /\ triggered = <<>>
    /\ Elsewhere

RingPush(frame) ==
    /\ recording' = [recording EXCEPT !.pre_roll = push(@, frame)]
    /\ heard' = Append(heard, frame)
    /\ UNCHANGED <<cmd_chan, input_chan, completed_chan, sample_registry, samples,
                   active, pc, chunks, n_sent, n_accepted, n_applied, n_chunks,
                   n_callbacks, last, ignored, dropped, n_drained,
                   out, reads, bounce, triggered,
                   crushed, id_vars, input_vars,
                   passes, output_vars, middle_vars, resample_vars>>

NextRing == Len(heard) < MaxPushes /\ \E frame \in MicFrames : RingPush(frame)

SpecRing == InitRing /\ [][NextRing]_vars

----------------------------------------------------------------------------
(* Claims about the engine *)

\* the command a step handles
Handles(type) ==
    n_applied' = n_applied + 1 /\ last' # None /\ last'[1].cmd.type = type

\* max(|left|, |right|) > 0.02, spelled out
Loud(frame) ==
    \/ frame.left > RECORD_PEAK_THRESHOLD \/ frame.left < -RECORD_PEAK_THRESHOLD
    \/ frame.right > RECORD_PEAK_THRESHOLD \/ frame.right < -RECORD_PEAK_THRESHOLD

\* the index of the first loud frame of a sequence, or 0
FirstLoud(frames) ==
    IF \A i \in 1..Len(frames) : ~Loud(frames[i]) THEN 0
    ELSE CHOOSE i \in 1..Len(frames) :
            Loud(frames[i]) /\ \A j \in 1..(i - 1) : ~Loud(frames[j])

LastN(frames, n) == SubSeq(frames, Len(frames) - n + 1, Len(frames))

\* C3: a Trigger of an unregistered sample changes nothing in the engine, and a
\* voice appears only in the step that handles a Trigger of a registered sample
C3_Step ==
    /\ (Handles("Trigger") /\ last'[1].cmd.params.sample_id \notin DOMAIN samples) =>
          /\ active' = active /\ samples' = samples /\ recording' = recording
          /\ completed_chan' = completed_chan
    /\ Len(active') > Len(active) =>
          /\ Handles("Trigger")
          /\ last'[1].cmd.params.sample_id \in DOMAIN samples
          /\ Len(active') = Len(active) + 1
          /\ SubSeq(active', 1, Len(active)) = active
          /\ active'[Len(active')].sample_id = last'[1].cmd.params.sample_id

\* C3: a Trigger whose sample is not registered when it is handled is a no-op, and
\* no voice appears for it later, whatever is registered afterwards
C3_UnregisteredTrigger == [][C3_Step]_vars

\* a Trigger met no sample, its id was registered afterwards, the engine went on
\* and there is no voice
C3_Witness ==
    /\ \E id \in ignored : id \in DOMAIN samples
    /\ n_applied >= 2 /\ last = None /\ active = <<>>

\* C4: the capture buffer is the last min(C, m) of the m frames drained since arming
\* that precede the first frame above the threshold, then every frame from that one
\* on, in arrival order
C4_CaptureBuffer ==
    recording.tag = "Capturing" =>
        LET k == FirstLoud(heard)
            pre == SubSeq(heard, 1, k - 1)
        IN /\ k > 0
           /\ recording.buffer =
                 LastN(pre, Min(PRE_ROLL_FRAMES, Len(pre))) \o SubSeq(heard, k, Len(heard))

\* the ring had wrapped when the threshold was crossed, its two last frames differ,
\* and frames arrived after the crossing
C4_Witness ==
    /\ recording.tag = "Capturing"
    /\ FirstLoud(heard) > PRE_ROLL_FRAMES + 1
    /\ (FirstLoud(heard) - 1) % PRE_ROLL_FRAMES # 0
    /\ heard[FirstLoud(heard) - 1] # heard[FirstLoud(heard) - 2]
    /\ Len(heard) > FirstLoud(heard)

\* C5: a drain_input step
C5_Step ==
    /\ (recording.tag = "Armed" /\ n_applied' = n_applied) =>
          /\ recording'.tag \in {"Armed", "Capturing"}
          /\ recording'.tag = "Capturing" <=>
                \E i \in (Len(heard) + 1)..Len(heard') : Loud(heard'[i])
    /\ (recording'.tag = "Capturing" /\ recording.tag # "Capturing") =>
          recording.tag = "Armed" /\ n_applied' = n_applied /\ Len(heard') > Len(heard)

\* C5: recording goes from Armed to Capturing in a drain_input exactly when a
\* drained frame has a peak strictly above the threshold, and Capturing is entered
\* from Armed only
C5_Threshold == [][C5_Step]_vars

\* frames whose peak equals the threshold were drained while Armed and left it
\* Armed; a later frame above the threshold started the capture
C5_Witness ==
    /\ recording.tag = "Capturing"
    /\ \E i \in 1..(FirstLoud(heard) - 1) :
          Max(Abs(heard[i].left), Abs(heard[i].right)) = RECORD_PEAK_THRESHOLD

\* C6: after m pushes into a ring of capacity C, drain_ordered is the last
\* min(m, C) pushed frames in push order, and len is min(m, C), never above C
C6_RingOrder ==
    LET ring == recording.pre_roll
        C == Len(ring.data)
        m == Len(heard)
    IN /\ ring.len = Min(m, C) /\ ring.len <= C
       /\ drain_ordered(ring) = LastN(heard, Min(m, C))

\* the ring wrapped and stopped off slot 0, holding frames that differ
C6_Witness ==
    /\ Len(recording.pre_roll.data) >= 2
    /\ Len(heard) > Len(recording.pre_roll.data)
    /\ recording.pre_roll.write_pos # 0
    /\ \E i \in 1..Len(drain_ordered(recording.pre_roll)) :
          drain_ordered(recording.pre_roll)[i] # drain_ordered(recording.pre_roll)[1]

\* C7 as claimed: every StopRecording handled while Armed or Capturing publishes
\* one CompletedRecording with the recording's id
C7_Original ==
    [][(Handles("StopRecording") /\ recording.tag \in {"Armed", "Capturing"}) =>
          /\ Len(completed_chan') = Len(completed_chan) + 1
          /\ completed_chan'[Len(completed_chan')].sample_id = recording.sample_id]_vars

C7_Step ==
    /\ (Handles("StopRecording") /\ recording.tag = "Capturing"
        /\ Len(completed_chan) < CompletedChanCap) =>
          /\ Len(completed_chan') = Len(completed_chan) + 1
          /\ SubSeq(completed_chan', 1, Len(completed_chan)) = completed_chan
          /\ completed_chan'[Len(completed_chan')].sample_id = recording.sample_id
    /\ (Handles("StopRecording") /\ recording.tag = "Capturing"
        /\ Len(completed_chan) >= CompletedChanCap) => completed_chan' = completed_chan
    /\ (Handles("StopRecording") /\ recording.tag = "Armed") =>
          completed_chan' = completed_chan
    /\ Len(completed_chan') > Len(completed_chan) =>
          Handles("StopRecording") /\ recording.tag = "Capturing"

\* C7, amended: a StopRecording handled while Capturing publishes exactly one
\* CompletedRecording with the capture's id when completed_chan has room and none
\* when it is full; one handled while Armed publishes nothing; nothing else
\* publishes
C7_Published == [][C7_Step]_vars

\* a capture was published, a second one found completed_chan full, and the
\* recording was then stopped while Armed
C7_Witness ==
    /\ dropped.completed > 0 /\ Len(completed_chan) = CompletedChanCap
    /\ last # None /\ last[1].cmd.type = "StopRecording" /\ last[1].before = "Armed"

\* C8: StopRecording handled in Capturing goes to Idle, registers the captured
\* frames (one silent frame if there are none) under the target id, and what it
\* sends on completed_chan has that id and the registered buffer
C8_StopCapturing ==
    [][(Handles("StopRecording") /\ recording.tag = "Capturing") =>
          LET id == recording.sample_id
              buf == IF recording.buffer = <<>> THEN <<StereoFrame_default>>
                     ELSE recording.buffer
          IN /\ recording' = Idle
             /\ DOMAIN samples' = DOMAIN samples \cup {id}
             /\ samples'[id] = buf
             /\ \A x \in DOMAIN samples \ {id} : samples'[x] = samples[x]
             /\ active' = active
             /\ completed_chan' # completed_chan =>
                   completed_chan' = Append(completed_chan,
                                            CompletedRecording(id, samples'[id]))]_vars

\* a capture with pre-roll, trigger frame and later frames was stopped, replaced
\* the sample its id had, and was published
C8_Witness ==
    /\ last # None /\ last[1].cmd.type = "StopRecording" /\ last[1].before = "Capturing"
    /\ completed_chan # <<>>
    /\ Len(completed_chan[1].buffer) >= 3
    /\ samples[completed_chan[1].sample_id] = completed_chan[1].buffer

\* C9: StopRecording handled in Armed goes to Idle and registers exactly one silent
\* frame under the target id, whatever the pre-roll ring holds
C9_StopArmed ==
    [][(Handles("StopRecording") /\ recording.tag = "Armed") =>
          LET id == recording.sample_id
          IN /\ recording' = Idle
             /\ DOMAIN samples' = DOMAIN samples \cup {id}
             /\ samples'[id] = <<StereoFrame_default>>
             /\ \A x \in DOMAIN samples \ {id} : samples'[x] = samples[x]
             /\ active' = active]_vars

\* the recording was stopped while Armed with a ring that held a frame other than
\* silence
C9_Witness ==
    /\ last # None /\ last[1].cmd.type = "StopRecording" /\ last[1].before = "Armed"
    /\ \E i \in 1..Len(heard) : heard[i] # StereoFrame_default
    /\ \E id \in DOMAIN samples : samples[id] = <<StereoFrame_default>>

\* C10: StopRecording handled in Idle changes nothing: the state stays Idle, the
\* registry, the voices and completed_chan are as before
C10_StopIdle ==
    [][(Handles("StopRecording") /\ recording.tag = "Idle") =>
          /\ recording' = Idle /\ samples' = samples /\ active' = active
          /\ completed_chan' = completed_chan]_vars

\* a StopRecording was handled in Idle while a voice was playing
C10_Witness ==
    /\ last # None /\ last[1].cmd.type = "StopRecording" /\ last[1].before = "Idle"
    /\ active # <<>> /\ active[1].voice.active

\* C11: while Armed the ring holds frames drained since the arm only
C11_RingSinceArm ==
    recording.tag = "Armed" =>
        drain_ordered(recording.pre_roll)
            = LastN(heard, Min(Len(heard), Len(recording.pre_roll.data)))

C11_Step ==
    (Handles("StartRecording") /\ recording.tag = "Idle") =>
        /\ recording'.tag = "Armed"
        /\ recording'.sample_id = last'[1].cmd.sample_id
        /\ recording'.pre_roll.len = 0
        /\ recording'.pre_roll.write_pos = 0
        /\ Len(recording'.pre_roll.data) = PRE_ROLL_FRAMES
        /\ drain_ordered(recording'.pre_roll) = <<>>
        /\ samples' = samples /\ active' = active /\ completed_chan' = completed_chan

\* C11: StartRecording{sample_id} handled in Idle gives Armed with that id and an
\* empty pre-roll ring of the fixed capacity, and no frame received before the arm
\* is in the ring
C11_ArmFromIdle == []C11_RingSinceArm /\ [][C11_Step]_vars

\* a capture was made and stopped, frames of it are registered, and the recording
\* was armed again from Idle for the other id
C11_Witness ==
    /\ last # None /\ last[1].cmd.type = "StartRecording" /\ last[1].before = "Idle"
    /\ recording.tag = "Armed" /\ recording.pre_roll.len = 0
    /\ \E id \in DOMAIN samples :
          /\ id # recording.sample_id
          /\ \E i \in 1..Len(samples[id]) : Loud(samples[id][i])

\* a step of SpecEngine in which render_block ran and did something
Renders == n_applied' = n_applied /\ (out' # out \/ active' # active \/ reads' # reads)

C12_Step ==
    /\ (n_applied' = n_applied + 1 /\ last' # None
        /\ last'[1].cmd.type \in {"RegisterSample", "Trigger", "SetPlaybackPosition",
                                  "StopAllVoices"}) => recording' = recording
    /\ Renders => recording' = recording
    /\ recording' # recording =>
          \/ Handles("StartRecording")
          \/ Handles("StopRecording")
          \/ n_applied' = n_applied /\ n_drained' > n_drained /\ ~Renders

\* C12: the recording state changes only through StartRecording, StopRecording and
\* drain_input; RegisterSample, Trigger, SetPlaybackPosition, StopAllVoices and
\* render_block leave its variant, id, ring and buffer as they are
C12_RecordingFrame == [][C12_Step]_vars

\* StopAllVoices was handled during a capture of several frames, after a render,
\* and the capture is still there
C12_Witness ==
    /\ last # None /\ last[1].cmd.type = "StopAllVoices" /\ last[1].before = "Capturing"
    /\ recording.tag = "Capturing" /\ Len(recording.buffer) >= 2
    /\ out # <<>>

----------------------------------------------------------------------------
(* Claims about the voices of the engine.  In SpecMix a step that handles no *)
(* command is a render_block call.                                           *)

AllInactive(act) == \A k \in 1..Len(act) : ~act[k].voice.active

\* a voice that renders a frame when render_block next runs on a non-empty slice
Playable(a) ==
    /\ a.voice.active /\ a.sample_id \in DOMAIN samples
    /\ a.voice.frames_rendered = 0 /\ a.voice.length > 0
    /\ a.voice.trim_start < Len(samples[a.sample_id])
    /\ a.voice.pos < a.voice.length * PosScale

\* C13 as claimed: the render_block that follows a StopAllVoices leaves none of
\* the stopped voices in the active list
C13_Original ==
    [][(n_applied' = n_applied /\ AllInactive(active)) => active' = <<>>]_vars

C13_Step ==
    /\ Handles("StopAllVoices") =>
          /\ Len(active') = Len(active)
          /\ \A i \in 1..Len(active) :
                active'[i] = [active[i] EXCEPT !.voice.active = FALSE]
          /\ samples' = samples /\ recording' = recording /\ out' = out
    /\ (Handles("StopAllVoices") /\ last # None /\ last[1].cmd.type = "StopAllVoices") =>
          active' = active
    /\ (n_applied' = n_applied /\ Len(out') > 0) =>
          /\ \A j \in 1..Len(active') : active'[j].voice.active
          /\ Len(active') <= Cardinality({k \in 1..Len(active) : active[k].voice.active})
          /\ AllInactive(active) =>
                active' = <<>> /\ out' = Zeros(Len(out')) /\ reads' = reads
          /\ (\E k \in 1..Len(active) : Playable(active[k])) => reads' # reads
    /\ (n_applied' = n_applied /\ out' = <<>>) => active' = active

\* C13, amended: StopAllVoices marks every voice of the active list inactive and
\* changes nothing else; the next render_block over a non-empty slice adds nothing
\* for those voices and removes them, while one over an empty slice leaves the list
\* as it is; a second StopAllVoices in a row changes nothing and creates no voice;
\* a Trigger handled after it still plays in that render
C13_StopAllVoices == [][C13_Step]_vars

\* a stopped voice is still in the list, inactive, and the Trigger handled after
\* the StopAllVoices added a voice that is active
C13_Witness ==
    /\ last # None /\ last[1].cmd.type = "Trigger"
    /\ Len(active) = 2 /\ ~active[1].voice.active /\ Playable(active[2])

\* C14: SetPlaybackPosition changes the position of the last voice of the list that
\* has the sample_id and is active, to the position clamped into [0, length - 1]
\* (a voice of length 0 keeps its position), and nothing else
C14_SetPlaybackPosition ==
    [][Handles("SetPlaybackPosition") =>
          LET id == last'[1].cmd.sample_id
              position == last'[1].cmd.position
              hits == {i \in 1..Len(active) :
                          active[i].sample_id = id /\ active[i].voice.active}
          IN /\ Len(active') = Len(active)
             /\ samples' = samples /\ recording' = recording /\ out' = out
             /\ hits = {} => active' = active
             /\ hits # {} =>
                   \E m \in hits :
                      /\ \A j \in hits : j <= m
                      /\ \A i \in 1..Len(active) : i # m => active'[i] = active[i]
                      /\ active'[m] = [active[m] EXCEPT !.voice.pos =
                            IF active[m].voice.length > 0
                            THEN Max(0, Min(position, (active[m].voice.length - 1) * PosScale))
                            ELSE @]]_vars

\* two active voices of the same sample: a position above the window was set, the
\* later voice is at its last frame and the earlier one where it was
C14_Witness ==
    /\ last # None /\ last[1].cmd.type = "SetPlaybackPosition"
    /\ last[1].cmd.position > 2 * PosScale
    /\ Len(active) = 2
    /\ active[1].sample_id = 1 /\ active[2].sample_id = 1
    /\ active[1].voice.active /\ active[2].voice.active
    /\ active[1].voice.length = 3 /\ active[2].voice.length = 3
    /\ active[1].voice.pos = 0 /\ active[2].voice.pos = 2 * PosScale

\* what voice `a` adds to a slice of n frames: its frames through its own chain
Contribution(a, n) ==
    process_chain(a.effect_chain, render_into(a.voice, samples[a.sample_id], Zeros(n)).out)

\* the sum of the contributions of the voices k.. of the list that are active
RECURSIVE MixFrom(_, _, _)
MixFrom(act, n, k) ==
    IF k > Len(act) THEN Zeros(n)
    ELSE IF act[k].voice.active /\ act[k].sample_id \in DOMAIN samples
         THEN Accumulate(MixFrom(act, n, k + 1), Contribution(act[k], n))
         ELSE MixFrom(act, n, k + 1)

\* C15: after render_block each frame of out is the sum, over the voices that were
\* active when it started, of the voice's rendered frame after its effect chain;
\* what out held before and the inactive voices add nothing
C15_Mix ==
    [][(n_applied' = n_applied /\ Len(out') > 0) =>
          out' = MixFrom(active, Len(out'), 1)]_vars

\* two voices were rendered into a block of two frames, one of them through a
\* bitcrusher, and the first frame is the sum of the two
C15_Witness ==
    /\ Len(out) = 2 /\ Len(active) = 2
    /\ active[1].effect_chain = <<>> /\ active[2].effect_chain # <<>>
    /\ active[1].voice.frames_rendered = 2 /\ active[2].voice.frames_rendered = 2
    /\ out[1] = StereoFrame(60 * OutUnit + 100 * OutUnit, -100 * OutUnit + 100 * OutUnit)

----------------------------------------------------------------------------
(* Claims about one voice.  In SpecVoice triggered[1] is the Trigger that    *)
(* made the voice, samples[1] its buffer, and reads has one entry per frame  *)
(* the voice rendered.                                                       *)

Ceil(a, b) == (a + b - 1) \div b

\* no command was handled since the Trigger: the voice was only rendered
Undisturbed == n_applied = 0

\* C16 as claimed: a forward voice without stutter over its whole buffer of L
\* frames, at pitch 0.5, 1 or 2, has rendered ceil(L / pitch) frames, give or take
\* one, when it is deactivated
C16_Original ==
    LET p == triggered[1]
        L == Len(samples[1])
    IN (/\ Undisturbed /\ active = <<>>
        /\ p.trim_start = 0 /\ p.length >= L /\ L >= 1
        /\ ~p.reverse /\ p.stutter_period_samples = None
        /\ p.pitch \in {1, PosScale, 2 * PosScale}) =>
           /\ Len(reads) >= Ceil(L * PosScale, p.pitch) - 1
           /\ Len(reads) <= Ceil(L * PosScale, p.pitch) + 1

\* a buffer of N silent frames played once from its start at gain 1 and pitch 1
SilentRun ==
    LET p == triggered[1]
    IN /\ Undisturbed
       /\ Len(samples[1]) >= 1 /\ samples[1] = Zeros(Len(samples[1]))
       /\ p.trim_start = 0 /\ p.length = Len(samples[1])
       /\ p.gain = 1 /\ p.pitch = PosScale /\ p.effect_chain = <<>>
       /\ ~p.reverse /\ p.stutter_period_samples = None

C17_Inv ==
    SilentRun =>
        /\ out = Zeros(Len(out))
        /\ Len(reads) <= Len(samples[1])
        /\ active = <<>> => Len(reads) = Len(samples[1])
        /\ active # <<>> => active[1].voice.frames_rendered = Len(reads)

C17_Step ==
    (SilentRun /\ n_applied' = n_applied /\ Len(out') > 0) =>
        /\ Len(reads') = Min(Len(samples[1]), Len(reads) + Len(out'))
        /\ active' = <<>> <=> Len(reads) + Len(out') > Len(samples[1])

\* C17: N silent frames triggered with gain 1, pitch 1, no effects, trim_start 0
\* and length N render exactly N frames, every output frame is zero, and the voice
\* is deactivated by the first frame asked of it after those N, however the output
\* is cut into blocks
C17_Silence == []C17_Inv /\ [][C17_Step]_vars

\* three silent frames were rendered in more than one block, the last block ended
\* on the third frame, and the voice is still in the list
C17_Witness ==
    /\ SilentRun /\ Len(samples[1]) = 3
    /\ active # <<>> /\ active[1].voice.frames_rendered = 3
    /\ Len(out) = 1

C18_Inv ==
    (Undisturbed /\ triggered[1].trim_start >= Len(samples[1])) =>
        /\ reads = <<>>
        /\ out = Zeros(Len(out))
        /\ Len(out) > 0 => active = <<>>

C18_Step ==
    (/\ n_applied' = n_applied /\ Len(out') > 0
     /\ Len(active) = 1 /\ active[1].voice.active
     /\ active[1].voice.trim_start >= Len(samples[active[1].sample_id])) =>
        active' = <<>> /\ out' = Zeros(Len(out')) /\ reads' = reads

\* C18: a voice whose trim_start is at or beyond the length of its buffer is
\* deactivated by its first render_into call, which reads and writes nothing, and
\* the render pass that made the call removes it
C18_TrimBeyond == []C18_Inv /\ [][C18_Step]_vars

\* a voice that started exactly at the end of a non-empty buffer is gone after a
\* render over a non-empty slice
C18_Witness ==
    /\ Undisturbed /\ Len(samples[1]) >= 1
    /\ triggered[1].trim_start = Len(samples[1]) /\ triggered[1].length > 0
    /\ active = <<>> /\ Len(out) > 0 /\ reads = <<>>

C19_Inv == \A i \in 1..Len(reads) : reads[i].idx < reads[i].len

C19_Step ==
    (n_applied' = n_applied /\ Len(out') > 0) =>
        \A j \in 1..Len(active') :
            /\ active'[j].voice.length >= 1
            /\ active'[j].voice.trim_start + active'[j].voice.length
                  <= Len(samples[active'[j].sample_id])

\* C19: for every Trigger of VoiceParams and every interleaving of renders,
\* SetPlaybackPosition and RegisterSample replacing the buffer, each index the
\* voice reads is below the length of the buffer it reads from, and a voice that
\* survives a render has its length inside the buffer behind trim_start
C19_InRange == []C19_Inv /\ [][C19_Step]_vars

\* the voice read from its buffer, the buffer was replaced by a shorter one, the
\* position was set, and the voice read again
C19_Witness ==
    /\ n_applied = 2
    /\ \E i \in 1..Len(reads) : \E j \in (i + 1)..Len(reads) :
          reads[i].len > reads[j].len /\ reads[i].idx >= reads[j].len

----------------------------------------------------------------------------
(* Claims about bounce_offline *)

\* the output has N * F frames, and no frame of a step that has not run yet has
\* been written
C20_Inv ==
    bounce # None =>
        LET b == bounce[1] IN
        /\ Len(b.output) = Len(b.step_commands) * b.frames_per_step
        /\ b.step_idx <= Len(b.step_commands)
        /\ \A j \in 1..Len(b.output) :
              j > b.step_idx * b.frames_per_step => b.output[j] = StereoFrame_default

\* step i writes segment i only, and the voice of a Trigger that is alone in step
\* i and meets no other voice is heard from the first frame of segment i on
C20_Step ==
    (bounce # None /\ bounce' # None /\ bounce'[1].step_idx = bounce[1].step_idx + 1) =>
        LET b == bounce[1]
            F == b.frames_per_step
            i == b.step_idx
            cmds == b.step_commands[i + 1]
        IN /\ Len(bounce'[1].output) = Len(b.step_commands) * F
           /\ \A j \in 1..Len(b.output) :
                 (j <= i * F \/ j > (i + 1) * F) => bounce'[1].output[j] = b.output[j]
           /\ (active = <<>> /\ Len(cmds) = 1 /\ cmds[1].type = "Trigger") =>
                 LET p == cmds[1].params
                     v == Voice_new(p.trim_start, p.length, p.pitch, p.gain, p.reverse,
                                    p.stutter_period_samples)
                 IN SubSeq(bounce'[1].output, i * F + 1, (i + 1) * F)
                       = render_into(v, samples[p.sample_id], Zeros(F)).out

\* C20: bounce_offline over N steps of F frames returns N * F frames whatever is
\* still playing; the commands of step i are applied before segment i is rendered,
\* so their voices are heard from index i * F on and never before, and nothing is
\* rendered past N * F
C20_Bounce == []C20_Inv /\ [][C20_Step]_vars

\* the last step of a pattern triggered a voice longer than a step: the bounce is
\* over, the voice is still active, and the last segment starts with its first frame
C20_Witness ==
    /\ bounce # None
    /\ bounce[1].step_idx = Len(bounce[1].step_commands)
    /\ Len(bounce[1].step_commands) >= 2 /\ bounce[1].frames_per_step = 2
    /\ Len(bounce[1].output) = 2 * Len(bounce[1].step_commands)
    /\ active # <<>> /\ active[1].voice.active /\ active[1].voice.frames_rendered = 2
    /\ bounce[1].output[Len(bounce[1].output) - 1]
          = StereoFrame(60 * OutUnit, -100 * OutUnit)
    /\ bounce[1].output[Len(bounce[1].output) - 2] = StereoFrame_default

----------------------------------------------------------------------------
(* Claims about block sizes *)

\* render_block over a frames and then over b frames, from the engine (act, smp)
TwoBlocks(act, smp, a, b) ==
    LET first == render_block(act, smp, Zeros(a))
        second == render_block(first.active, smp, Zeros(b))
    IN [active |-> second.active, out |-> first.out \o second.out]

\* from the engine as it is, one block of a + b frames and two blocks of a and b
\* frames give the same frames and leave the same voices
C21_Inv ==
    \A a \in 1..MaxBlock, b \in 1..MaxBlock :
        LET one == render_block(active, samples, Zeros(a + b))
            two == TwoBlocks(active, samples, a, b)
        IN one.out = two.out /\ one.active = two.active

\* the block a callback rendered is what two shorter blocks of the same total
\* length would have rendered, and an empty block would have changed nothing
C21_Step ==
    (n_applied' = n_applied /\ Len(out') > 0) =>
        /\ \A a \in 1..(Len(out') - 1) :
              LET two == TwoBlocks(active, samples, a, Len(out') - a)
              IN out' = two.out /\ active' = two.active
        /\ render_block(active, samples, <<>>).active = active
        /\ render_block(active', samples, <<>>).active = active'

\* C21: rendering is independent of block size: one render_block over a + b
\* frames gives the frames of a render_block over a frames followed by one over b
\* frames, and the surviving voices end with the same position and frame count
C21_BlockSize == []C21_Inv /\ [][C21_Step]_vars

\* a voice was rendered for one block of two frames, both audible, and goes on
C21_Witness ==
    /\ n_applied = 0 /\ Len(out) = 2 /\ Len(reads) = 2
    /\ out[1] # StereoFrame_default /\ out[2] # StereoFrame_default
    /\ active # <<>> /\ active[1].voice.active /\ active[1].voice.frames_rendered = 2
    /\ active[1].voice.pos # 0

----------------------------------------------------------------------------
(* Claims about the Bitcrusher.  In SpecCrush, crushed is the last call of   *)
(* process; 1.0 is 100 * OutUnit.                                             *)

One == 100 * OutUnit

\* C22: a Bitcrusher made with levels = 2 turns an input sample of 0.9 into
\* exactly 1.0
C22_Original ==
    (crushed # None /\ crushed[1].levels = 2) =>
        /\ crushed[1].input[1].left = 90 * OutUnit => crushed[1].output[1].left = One
        /\ crushed[1].input[1].right = 90 * OutUnit => crushed[1].output[1].right = One

\* the values a Bitcrusher puts out over every input from -1.2 to 1.2
Outputs(effect) == {Bitcrusher_sample(effect, x) : x \in (-(120 * OutUnit))..(120 * OutUnit)}

\* C23: for every levels value, clamped into [2, 65536], and every input sample
\* the Bitcrusher's output lies within [-1, 1], and over all inputs it takes at
\* most `levels` distinct values
C23_Original ==
    crushed # None =>
        /\ crushed[1].effect.levels = Min(Max(crushed[1].levels, 2), 65536)
        /\ Abs(crushed[1].output[1].left) <= One
        /\ Abs(crushed[1].output[1].right) <= One
        /\ Cardinality(Outputs(crushed[1].effect)) <= crushed[1].effect.levels

----------------------------------------------------------------------------
(* Claims about next_sample_id *)

\* the ids thread t has been given, the one it holds and has not handed back last
IdsOf(t) == returned_ids[t] \o fetched[t]

\* C24: any two calls of next_sample_id, from one thread or from two, in any
\* interleaving, return different SampleIds, and the ids one thread gets are
\* strictly increasing
C24_Unique ==
    /\ \A t \in Threads : \A i, j \in 1..Len(IdsOf(t)) :
          i < j => IdsOf(t)[i] < IdsOf(t)[j]
    /\ \A t, u \in Threads : \A i \in 1..Len(IdsOf(t)), j \in 1..Len(IdsOf(u)) :
          (t # u \/ i # j) => IdsOf(t)[i] # IdsOf(u)[j]

\* two threads took their ids in turn, and thread 2 has fetched a fourth id that
\* it has not been handed yet
C24_Witness ==
    /\ returned_ids[1] = <<SampleId(0), SampleId(2)>>
    /\ returned_ids[2] = <<SampleId(1)>>
    /\ fetched[2] = Some(SampleId(3)) /\ fetched[1] = None
    /\ NEXT_ID = 4

----------------------------------------------------------------------------
(* Claims about the handle's sample registry *)

\* the command queue is empty and no output callback is under way
CommandsDrained == cmd_chan = <<>> /\ pc = "idle"

\* C25: after any sends and output callbacks, once the command queue has been
\* drained, every id sent in a RegisterSample maps to the same buffer in the
\* handle's registry and in the engine's
C25_Original ==
    CommandsDrained =>
        \A id \in DOMAIN sample_registry :
            id \in DOMAIN samples /\ samples[id] = sample_registry[id]

----------------------------------------------------------------------------
(* Claims about the input device *)

\* the stream the handle holds, as a set
Held == {input_stream[i] : i \in 1..Len(input_stream)}

\* at most one capture stream exists, and between two calls it is the one the
\* handle holds
C26_Inv ==
    /\ Cardinality(streams) <= 1
    /\ Held \subseteq streams
    /\ cycle.pc = "idle" => streams = Held

\* a call with no devices returns "none" and changes nothing; a call with n
\* devices moves the index to (index + 1) mod n, has dropped the old stream when it
\* builds the new one, and ends with the new stream, or with none and the name
C26_Step ==
    /\ (cycle'.n_calls = cycle.n_calls + 1 /\ cycle'.devices = 0) =>
          /\ cycle'.returned = Some("none") /\ cycle'.pc = "idle"
          /\ input_device_index' = input_device_index
          /\ input_stream' = input_stream /\ streams' = streams
    /\ (cycle'.n_calls = cycle.n_calls + 1 /\ cycle'.devices > 0) =>
          /\ input_device_index' = (input_device_index + 1) % cycle'.devices
          /\ cycle'.pc # "idle" /\ cycle'.returned = None
    /\ (cycle.pc = "build" /\ cycle'.pc = "assign") =>
          /\ streams = {} /\ input_stream = None
          /\ input_device_index' = input_device_index
    /\ (cycle.pc = "assign" /\ cycle'.pc = "idle") =>
          /\ input_stream' = cycle.built /\ streams' = Held'
          /\ cycle'.returned \in {Some(DeviceName(input_device_index)), Some("???")}
          /\ input_device_index' = input_device_index

\* C26: cycle_input_device holds at most one capture stream at any time; with
\* n >= 1 devices it advances the index to (index + 1) mod n and drops the old
\* stream before it builds the new one, and when the new one cannot be built the
\* handle is left without an input stream and the name is returned; with no
\* devices it returns "none" and changes neither the index nor the stream
C26_Cycle == []C26_Inv /\ [][C26_Step]_vars

\* the handle started with a stream, a first cycle over two devices replaced it,
\* and a second could not build one: no stream is left, the index has wrapped to
\* 0 and the name of device 0 was returned
C26_Witness ==
    /\ cycle.pc = "idle" /\ cycle.n_calls = 2 /\ cycle.devices = 2
    /\ n_built = 2 /\ input_stream = None /\ streams = {}
    /\ input_device_index = 0 /\ cycle.returned = Some(DeviceName(0))

----------------------------------------------------------------------------
(* Claims about fades and stutter.  In SpecVoice every entry of reads is a   *)
(* frame the one voice rendered.                                              *)

\* the fade factor 1.0, in the units of fade
FullFade == FADE_SAMPLES * PosScale

\* C27: on every frame a voice renders, the fade factor min(positional fade,
\* lifetime fade) lies in [0, 1], for forward and reverse voices, with or without
\* a stutter period, period 0 included, and for any pitch
C27_Original ==
    \A i \in 1..Len(reads) : reads[i].fade >= 0 /\ reads[i].fade <= FullFade

\* C28: a voice with a stutter period P reads, on every frame it renders, a
\* position inside [0, min(P, length)) of its trim region, forward or reverse
C28_Original ==
    triggered[1].stutter_period_samples # None =>
        \A i \in 1..Len(reads) :
            /\ reads[i].at >= 0
            /\ reads[i].at < Min(triggered[1].stutter_period_samples[1],
                                 reads[i].length) * PosScale


Stutter == triggered[1].stutter_period_samples # None

\* the frames of the buffer from the voice's trim_start on
Available(v, buffer) == Max(Len(buffer) - v.trim_start, 0)

\* no voice has rendered more frames than its length, and a stutter voice that
\* has only been rendered has rendered min(length, buffer length - trim_start)
\* frames when it is removed, and never more
C29_Inv ==
    /\ \A j \in 1..Len(active) : active[j].voice.frames_rendered <= active[j].voice.length
    /\ (Stutter /\ Undisturbed) =>
          LET p == triggered[1]
              L0 == Min(p.length, Max(Len(samples[1]) - p.trim_start, 0))
          IN /\ Len(reads) <= L0
             /\ active = <<>> => Len(reads) = L0

\* a render of n frames takes a stutter voice with r frames rendered of the L its
\* buffer allows through min(n, L - r) frames, and removes it when n > L - r
C29_Step ==
    (/\ n_applied' = n_applied /\ Len(out') > 0 /\ Stutter /\ active # <<>>
     /\ active[1].voice.frames_rendered
           <= Min(active[1].voice.length, Available(active[1].voice, samples[1]))) =>
        LET v == active[1].voice
            L == Min(v.length, Available(v, samples[1]))
            left == L - v.frames_rendered
        IN /\ Len(reads') - Len(reads) = Min(Len(out'), left)
           /\ active' = <<>> <=> Len(out') > left
           /\ active' # <<>> =>
                 /\ active'[1].voice.frames_rendered = v.frames_rendered + Len(out')
                 /\ active'[1].voice.length = L

C30_Original ==
    LET p == triggered[1]
        L == Min(p.length, Max(Len(samples[1]) - p.trim_start, 0))
    IN (/\ Undisturbed /\ p.reverse /\ p.stutter_period_samples = None
        /\ p.pitch = PosScale /\ L >= 1) =>
           /\ Len(reads) <= L
           /\ \A i \in 1..Len(reads) : reads[i].at = (L - i) * PosScale
           /\ active = <<>> => Len(reads) = L

----------------------------------------------------------------------------
(* Claims about the life of the active list.                                 *)

\* the voices of the list `act` once each has been rendered over n frames
RenderedVoices(act, n) ==
    [k \in 1..Len(act) |-> render_voice(act[k], samples, n).active]

\* the index in `act` of the j-th voice that is active
RECURSIVE NthActive(_, _, _)
NthActive(act, j, from) ==
    IF from > Len(act) THEN 0
    ELSE IF act[from].voice.active
         THEN IF j = 1 THEN from ELSE NthActive(act, j - 1, from + 1)
    ELSE NthActive(act, j, from + 1)

C32_Step ==
    /\ (n_applied' = n_applied /\ Len(out') > 0) =>
          LET r == RenderedVoices(active, Len(out'))
          IN /\ \A j \in 1..Len(active') : active'[j].voice.active
             /\ Len(active') = Cardinality({k \in 1..Len(r) : r[k].voice.active})
             /\ \A j \in 1..Len(active') : active'[j] = r[NthActive(r, j, 1)]
    /\ (n_applied' = n_applied /\ Len(out') = 0) => active' = active
    /\ n_applied' = n_applied + 1 =>
          /\ Len(active') >= Len(active)
          /\ \A i \in 1..Len(active) :
                /\ active'[i].sample_id = active[i].sample_id
                /\ active'[i].effect_chain = active[i].effect_chain
                /\ active'[i].voice.trim_start = active[i].voice.trim_start
                /\ active'[i].voice.length = active[i].voice.length

\* C32: a render_block over a non-empty output leaves in the active list exactly
\* the voices that are still active after their rendering, in the order they
\* had, so none with a false active flag; handling a command never shortens the
\* list nor moves a voice in it
C32_Pruning == [][C32_Step]_vars

\* three Triggers were handled, the second for a voice of length 0; a render pass
\* removed that voice and left the first and the third, in that order
C32_Witness ==
    /\ Len(triggered) = 3 /\ triggered[2].length = 0
    /\ triggered[1].sample_id = 1 /\ triggered[3].sample_id = 2
    /\ last = None /\ Len(out) > 0
    /\ Len(active) = 2 /\ active[1].sample_id = 1 /\ active[2].sample_id = 2
    /\ active[1].voice.length = triggered[1].length

----------------------------------------------------------------------------
(* Claims about effect chains.  In SpecChain every voice plays sample 1 or 2 *)
(* at pitch 1 and gain 1.                                                    *)

\* the block `raw` after the processors 1..k of `chain`, one after the other
RECURSIVE Through(_, _, _)
Through(chain, raw, k) ==
    IF k = 0 THEN raw ELSE process(chain[k], Through(chain, raw, k - 1))

\* what voice `a` renders over n frames before any effect
Raw(a, n) == render_into(a.voice, samples[a.sample_id], Zeros(n)).out

\* the sum over the voices k.. of the list that are active of e_k(...e_1(raw))
RECURSIVE ChainMix(_, _, _)
ChainMix(act, n, k) ==
    IF k > Len(act) THEN Zeros(n)
    ELSE IF act[k].voice.active /\ act[k].sample_id \in DOMAIN samples
         THEN Accumulate(ChainMix(act, n, k + 1),
                         Through(act[k].effect_chain, Raw(act[k], n),
                                 Len(act[k].effect_chain)))
         ELSE ChainMix(act, n, k + 1)

C33_Step ==
    /\ Handles("Trigger") =>
          LET p == last'[1].cmd.params
              a == active'[Len(active')]
          IN /\ Len(active') = Len(active) + 1
             /\ Len(a.effect_chain) = Len(p.effect_chain)
             /\ \A i \in 1..Len(p.effect_chain) :
                   a.effect_chain[i] = Bitcrusher_new(p.effect_chain[i].levels)
    /\ n_applied' = n_applied + 1 =>
          \A i \in 1..Len(active) : active'[i].effect_chain = active[i].effect_chain
    /\ (n_applied' = n_applied /\ Len(out') > 0) =>
          /\ out' = ChainMix(active, Len(out'), 1)
          /\ \A j \in 1..Len(active') : \E k \in j..Len(active) :
                active'[j].effect_chain = active[k].effect_chain

\* C33: a Trigger gives its voice the processors of its EffectSpec list in list
\* order, no command or render changes a voice's chain afterwards, and each
\* render_block output is the sum over the active voices of the voice's own raw
\* frames passed through its processors first to last: a chain touches neither
\* another voice's frames nor the mix
C33_EffectChain == [][C33_Step]_vars

\* a voice through Bitcrusher(5) then Bitcrusher(3) and a voice without effects
\* were rendered together over two frames: the output is the sum of the second
\* voice's raw frames and of the first voice's frames crushed in list order,
\* which differs from what the opposite order gives
C33_Witness ==
    /\ Len(triggered) = 2 /\ Len(active) = 2 /\ last = None /\ Len(out) = 2
    /\ active[1].effect_chain = <<Bitcrusher_new(5), Bitcrusher_new(3)>>
    /\ active[2].effect_chain = <<>>
    /\ active[1].voice.frames_rendered = 2 /\ active[2].voice.frames_rendered = 2
    /\ LET v1 == Voice_new(0, 3, PosScale, 1, FALSE, None)
           v2 == Voice_new(0, 2, PosScale, 1, FALSE, None)
           raw1 == render_into(v1, MixBuffer1, Zeros(2)).out
           raw2 == render_into(v2, MixBuffer2, Zeros(2)).out
       IN /\ out = Accumulate(raw2, process(Bitcrusher_new(3),
                                            process(Bitcrusher_new(5), raw1)))
          /\ out # Accumulate(raw2, process(Bitcrusher_new(5),
                                            process(Bitcrusher_new(3), raw1)))
          /\ out # Accumulate(raw2, raw1)

----------------------------------------------------------------------------
(* Claims about arm cycles.  heard holds the frames drained since the last   *)
(* StartRecording was handled.                                               *)

C34_Inv ==
    recording.tag = "Capturing" =>
        /\ Len(recording.buffer) <= Len(heard)
        /\ recording.buffer = LastN(heard, Len(recording.buffer))

C34_Step ==
    (Handles("StartRecording") /\ recording.tag \in {"Armed", "Capturing"}) =>
        /\ recording' = Armed(last'[1].cmd.sample_id, PreRollRing_new(PRE_ROLL_FRAMES))
        /\ drain_ordered(recording'.pre_roll) = <<>>
        /\ samples' = samples /\ completed_chan' = completed_chan
        /\ dropped' = dropped /\ active' = active

\* C34: StartRecording handled while Armed or Capturing leaves the state Armed
\* with the new id and an empty ring; the registry and completed_chan are as
\* before, so the interrupted id is neither registered nor announced; and what a
\* later capture holds are frames drained after that StartRecording only
C34_Rearm == []C34_Inv /\ [][C34_Step]_vars

\* a capture for id 1 holding frames was interrupted by StartRecording(2): the
\* state is Armed for 2, id 1 is not registered and nothing was announced
C34_Witness ==
    /\ last # None /\ last[1].cmd = StartRecording(2) /\ last[1].before = "Capturing"
    /\ recording.tag = "Armed" /\ recording.sample_id = 2
    /\ samples = EmptyMap /\ completed_chan = <<>> /\ dropped.completed = 0

----------------------------------------------------------------------------
(* Claims about the input queue in the output callback.  pc is the place of  *)
(* the callback: "cmds" in the command loop, "input" in drain_input.         *)

C35_Inv == pc \in {"idle", "cmds", "render"} => chunks = <<>>

C35_Step ==
    /\ (pc = "input" /\ pc' = "render" /\ recording.tag = "Idle") =>
          /\ recording' = Idle /\ chunks' = <<>> /\ input_chan' = <<>>
          /\ samples' = samples /\ completed_chan' = completed_chan
    /\ n_applied' = n_applied + 1 =>
          /\ pc = "cmds" /\ pc' = "cmds" /\ input_chan' = input_chan
    /\ (Handles("StopRecording") /\ recording.tag = "Capturing") =>
          /\ recording' = Idle
          /\ samples'[recording.sample_id] = recording.buffer
    /\ input_chan' # input_chan =>
          \/ n_chunks' = n_chunks + 1
          \/ pc = "input" /\ input_chan' = Tail(input_chan)
    /\ (recording' # recording /\ n_applied' = n_applied) =>
          pc = "input" /\ pc' = "render" /\ recording.tag # "Idle"

\* C35: a drain_input that finds the state Idle empties the input queue and
\* keeps nothing of it: the state stays Idle and the chunks are in no variable
\* afterwards, so no later ring or capture can hold them; commands are handled
\* only in the command loop, before drain_input has received a chunk, so the
\* buffer a StopRecording registers is the capture buffer as it is then and the
\* chunks still queued stay in the queue
C35_IdleChunks == []C35_Inv /\ [][C35_Step]_vars

\* StopRecording finished a capture while a chunk was waiting in the input queue
C35_Witness ==
    /\ last # None /\ last[1].cmd = StopRecording /\ last[1].before = "Capturing"
    /\ pc = "cmds" /\ input_chan # <<>> /\ Head(input_chan) # <<>>
    /\ recording = Idle /\ 2 \in DOMAIN samples

----------------------------------------------------------------------------
(* Claims about the sample registry of the engine.                           *)

C36_Inv == \A i \in 1..Len(active) : active[i].sample_id \in DOMAIN samples

C36_Step ==
    /\ DOMAIN samples \subseteq DOMAIN samples'
    /\ samples' # samples =>
          \/ Handles("RegisterSample")
                /\ samples' = Insert(samples, last'[1].cmd.id, last'[1].cmd.buffer)
          \/ Handles("StopRecording") /\ recording.tag \in {"Armed", "Capturing"}
                /\ \A id \in DOMAIN samples :
                      id # recording.sample_id => samples'[id] = samples[id]

\* C36: every voice of the active list has its SampleId in the registry, and the
\* registry never loses an id: it changes only when RegisterSample or a
\* StopRecording that ends an arm cycle inserts or replaces one buffer, so
\* render_block finds a buffer for every voice
C36_Registered == []C36_Inv /\ [][C36_Step]_vars

\* a voice of sample 1 is playing while a recording into sample 1 is armed, and
\* sample 1 is still registered
C36_Witness ==
    /\ active # <<>> /\ active[1].voice.active /\ active[1].sample_id = 1
    /\ recording.tag = "Armed" /\ recording.sample_id = 1
    /\ 1 \in DOMAIN samples /\ samples[1] # <<>>

----------------------------------------------------------------------------
(* Claims about the end of a voice.  In SpecPlay passes holds the size of    *)
(* every render pass that returned.                                          *)

\* the passes so far all had n frames
AllOfSize(n) == \A i \in 1..Len(passes) : passes[i] = n

\* the frames the voice of SpecPlay can render
Lifetime ==
    Min(triggered[1].length, Max(Len(samples[1]) - triggered[1].trim_start, 0))

C31_Bound ==
    \A n \in 1..MaxBlock :
        (AllOfSize(n) /\ Len(passes) >= Ceil(Lifetime, n) + 1) => active = <<>>

\* C31 as claimed: the voice is eventually removed from the active list, and
\* it is gone once ceil(min(length, buffer length - trim_start) / block size) + 1
\* passes were rendered, at any pitch, direction and stutter period
C31_Original == <>(active = <<>>) /\ []C31_Bound

----------------------------------------------------------------------------
(* Claims about the output callback.  callback_data holds data.len() and     *)
(* n_frames of the last callback.                                            *)

\* C37 as claimed: whatever channel count start_audio accepted, the frames the
\* callback renders fit in the device buffer: 2 * n_frames <= data.len()
C37_Original ==
    callback_data # None =>
        2 * callback_data[1].n_frames <= callback_data[1].data_len

----------------------------------------------------------------------------
(* Claims about Middle.  A slot's sample_path is "(recording)" from the      *)
(* RecordDown that gave it its sample_id.                                    *)

\* C38 as claimed: once the record button is released and every command sent
\* has been handled, each slot that RecordDown gave a sample_id refers to an id
\* the engine has registered
C38_Original ==
    (~held.record /\ emitted = <<>>) =>
        \A slot \in Slots :
            sounds[slot].sample_path = "(recording)" =>
                sounds[slot].sample_id[1] \in DOMAIN samples


\* a slot that load_sample_into_slot filled with at least one frame
Loaded(slot) == sounds[slot].sample_path = "file" /\ sounds[slot].buffer_len >= 1

\* a slot that RecordDown armed: nothing recorded yet, the length at usize::MAX
BeingRecorded(slot) ==
    /\ sounds[slot].sample_path = "(recording)"
    /\ sounds[slot].buffer_len = 0

TrimWindowOk(slot) ==
    /\ sounds[slot].trim_start <= sounds[slot].buffer_len - 1
    /\ sounds[slot].length >= 1
    /\ sounds[slot].trim_start + sounds[slot].length <= sounds[slot].buffer_len

\* C39 as claimed: under the trim events a loaded slot keeps its window inside
\* its buffer, and no addition overflows, on a loaded slot or on one being
\* recorded
C39_Original ==
    /\ \A slot \in Slots : Loaded(slot) => TrimWindowOk(slot)
    /\ ~overflowed

----------------------------------------------------------------------------
(* Claims about resample_linear.                                             *)

\* ceil(a / b) for integers a >= 0 and b > 0
CeilDiv(a, b) == (a + b - 1) \div b

\* the frames the call in progress was given and the frames it returned
ResampleIn == resample_args[1].frames
ResampleOut == resampled[1].out

\* how far the f32 weight may be from the exact remainder: one part in
\* 2^f32_MANTISSA_DIGITS
FracTolerance == F64Scale \div Pow2(f32_MANTISSA_DIGITS)

\* frame i (from 0) of the output blends the input frames floor(i*s/t) and the
\* next one with the remainder as weight, or repeats the last input frame at
\* the boundary
BlendsExactIndex(i) ==
    LET s == resample_args[1].source_rate
        t == resample_args[1].target_rate
        n == Len(ResampleIn)
        o == ResampleOut[i + 1]
        k == (i * s) \div t
    IN /\ o.idx = k
       /\ IF k >= n - 1
          THEN /\ n = 0 => o.frame = StereoFrame(0, 0)
               /\ n > 0 => o.frame = StereoFrame(ResampleIn[n].left * F64Scale,
                                                 ResampleIn[n].right * F64Scale)
          ELSE /\ o.frame.left = ResampleIn[k + 1].left * f32(F64Scale - o.frac)
                                 + ResampleIn[k + 2].left * o.frac
               /\ o.frame.right = ResampleIn[k + 1].right * f32(F64Scale - o.frac)
                                  + ResampleIn[k + 2].right * o.frac
               /\ Abs(o.frac * t - ((i * s) % t) * F64Scale) <= FracTolerance * t

\* C40 as claimed: equal rates return the input; otherwise ceil(n*t/s) frames
\* come back, frame i blending the input frames floor(i*s/t) and the next one
\* or repeating the last at the boundary; no read is outside the input
C40_Original ==
    resampled # None =>
        LET s == resample_args[1].source_rate
            t == resample_args[1].target_rate
            n == Len(ResampleIn)
        IN /\ s = t => /\ Len(ResampleOut) = n
                       /\ \A i \in 1..n :
                             ResampleOut[i].frame =
                                 StereoFrame(ResampleIn[i].left * F64Scale,
                                             ResampleIn[i].right * F64Scale)
           /\ s # t => /\ Len(ResampleOut) = CeilDiv(n * t, s)
                       /\ \A i \in 0..(Min(Len(ResampleOut), CeilDiv(n * t, s)) - 1) :
                             BlendsExactIndex(i)
           /\ \A i \in 1..Len(ResampleOut) : ResampleOut[i].reads \subseteq 0..(n - 1)

====
